---- MODULE Spec2Model ----
(***************************************************************************)
(* A model of the deterministic chart engine of celestia:                  *)
(*   calculateAspects, calculateChart, calculateAscendant, getZodiacInfo   *)
(* (astrology engine) and resolveCollisions (the wheel's radial layout),   *)
(* together with the inputs they are called on.                            *)
(*                                                                         *)
(* Angles are exact fixed-point numbers: one unit is a tenth of a degree,  *)
(* so 4.2 degrees (ORB * 0.7) is the integer 42.  IEEE rounding of the     *)
(* doubles the program uses is not modelled.                               *)
(***************************************************************************)
EXTENDS Integers, Sequences, FiniteSets, TLC

VARIABLES
    op,        \* the operation this run calls
    pc,        \* "input" before the call, "done" after it returned,
               \* "failed" after it threw
    p1,        \* planets of the first chart passed to calculateAspects
    p2,        \* planets of the second chart passed to calculateAspects
    aspects,   \* the list calculateAspects returned
    lat,       \* latitude passed to calculateChart, in degrees
    atan2Deg,  \* what Math.atan2(num, den) * 180 / PI evaluates to for the call
    sky,       \* what Astronomy.Ecliptic reports for each body: elon at the
               \* instant and elon one hour later
    chart,     \* the CalculatedChart calculateChart returned
    value,     \* the number passed to the normalization expression
    normalized, \* what (value + 360) % 360 evaluated to
    ring,      \* the planets array passed to resolveCollisions
    minDeg,    \* the minimum separation passed to resolveCollisions
    layout,    \* the array resolveCollisions returned
    subject,   \* the name passed to enrichChart
    response,  \* what the text model answered to enrichChart's request
    enriched,  \* the ChartData enrichChart returned
    zodiacInfo, \* what getZodiacInfo returned
    gmst, \* what Astronomy.SiderealTime(date) returned to calculateAscendant, in hours
    lon, \* longitude passed to calculateAscendant, in degrees
    ascendant, \* what calculateAscendant returned
    wheel, \* the props and state aspectLines reads: whether secondaryData is set, and the active planet
    lines, \* the lines aspectLines returned, as planet names, owners and aspect type
    app, \* the state of the App component: step, isLoading, loadingStep, chartData, isSynastry, selectedPlanet, error
    form, \* the mode of the BirthForm while it is mounted
    runs, \* the handleCalculate calls that have not finished: whether each is a synastry, and where it stands
    syn \* the locals of one analyzeSynastry call: the outcome of each resolveBirthDetails, c1, c2, aspects, p1Enriched, p2Enriched, analysis and the value returned

vars == <<op, pc, p1, p2, aspects, lat, atan2Deg, sky, chart, value, normalized,
          ring, minDeg, layout, subject, response, enriched, zodiacInfo,
          gmst, lon, ascendant,
          wheel, lines,
          app, form, runs,
          syn>>

\* the value of a variable the running operation does not use
Unused == "unused"

----------------------------------------------------------------------------
(* Units and bounds *)

\* n degrees in model units (tenths of a degree)
Deg(n) == n * 10

\* number of planets per chart in the sampled multi-planet inputs
MaxPlanets == 3

\* how many of SampleLongitudes the multi-planet inputs draw from
NumSamples == 2

\* how many of AnchorLongitudes the single-pair inputs draw planet A from
NumAnchors == 2

\* how many of LatSamples calculateChart is called with
NumLats == 4

\* how many values of the atan2 expression calculateChart is run on
NumAscendants == 12

\* how many skies are generated for each distribution of the bodies
NumVariants == 2

\* the normalization is run on every tenth of a degree within this many
\* full turns of zero, on either side
MaxTurns == 2
MaxRing == 6
MaxReplies == 3
NumSubjects == 3
MaxKeyAspects == 2
NumGaps == 3
NumStarts == 2
NumMinDegs == 2

Abs(x) == IF x < 0 THEN -x ELSE x

Min(x, y) == IF x <= y THEN x ELSE y

Range(s) == {s[i] : i \in 1..Len(s)}

----------------------------------------------------------------------------
(* Constants of the program *)

BODIES == <<"Sun", "Moon", "Mercury", "Venus", "Mars",
            "Jupiter", "Saturn", "Uranus", "Neptune", "Pluto">>

\* const ORB = 6
ORB == Deg(6)

\* ORB * 0.7
SextileOrb == (ORB * 7) \div 10

\* .slice(0, 8)
TopAspects == 8

FullCircle == Deg(360)

HalfCircle == Deg(180)

\* every longitude in [0, 360) on the tenth-of-a-degree grid
Longitudes == 0..(FullCircle - 1)

----------------------------------------------------------------------------
(* calculateAspects *)

\* Separation without Math.abs
SeparationNoAbs(a, b) ==
    LET diff == a - b
    IN  IF diff > HalfCircle THEN FullCircle - diff ELSE diff

\* const diff = Math.abs(a - b); const angle = diff > 180 ? 360 - diff : diff
Separation(a, b) ==
    LET diff == Abs(a - b)
    IN  IF diff > HalfCircle THEN FullCircle - diff ELSE diff

\* the chain with bands of 16 degrees, wide enough to overlap
AspectTypeOverlapping(angle) ==
    IF Abs(angle - 0) <= ORB + Deg(10) THEN "Conjunction"
    ELSE IF Abs(angle - Deg(60)) <= ORB + Deg(10) THEN "Sextile"
    ELSE IF Abs(angle - Deg(90)) <= ORB + Deg(10) THEN "Square"
    ELSE IF Abs(angle - Deg(120)) <= ORB + Deg(10) THEN "Trine"
    ELSE IF Abs(angle - Deg(180)) <= ORB + Deg(10) THEN "Opposition"
    ELSE ""

\* the chain with the sextile band as wide as the others
AspectTypeWideSextile(angle) ==
    IF Abs(angle - 0) <= ORB THEN "Conjunction"
    ELSE IF Abs(angle - Deg(60)) <= ORB THEN "Sextile"
    ELSE IF Abs(angle - Deg(90)) <= ORB THEN "Square"
    ELSE IF Abs(angle - Deg(120)) <= ORB THEN "Trine"
    ELSE IF Abs(angle - Deg(180)) <= ORB THEN "Opposition"
    ELSE ""

\* the if / else-if chain: the first band that matches wins, "" when none does
AspectType(angle) ==
    IF Abs(angle - 0) <= ORB THEN "Conjunction"
    ELSE IF Abs(angle - Deg(60)) <= SextileOrb THEN "Sextile"
    ELSE IF Abs(angle - Deg(90)) <= ORB THEN "Square"
    ELSE IF Abs(angle - Deg(120)) <= ORB THEN "Trine"
    ELSE IF Abs(angle - Deg(180)) <= ORB THEN "Opposition"
    ELSE ""

\* type === 'Conjunction' ? 0 : type === 'Sextile' ? 60 : ... : 180
ExactAngle(type) ==
    IF type = "Conjunction" THEN 0
    ELSE IF type = "Sextile" THEN Deg(60)
    ELSE IF type = "Square" THEN Deg(90)
    ELSE IF type = "Trine" THEN Deg(120)
    ELSE Deg(180)

\* orb without Math.abs
AspectOrbSigned(angle, type) == angle - ExactAngle(type)

\* orb: Math.abs(angle - exact angle of the type)
AspectOrb(angle, type) == Abs(angle - ExactAngle(type))

\* the record pushed for one pair (only pushed when its aspectType is not "")
PairRecord(planetA, planetB) ==
    LET angle == Separation(planetA.degree, planetB.degree)
        type  == AspectType(angle)
    IN  [planetA     |-> planetA.name,
         planetB     |-> planetB.name,
         aspectType  |-> type,
         description |-> "",
         orb         |-> AspectOrb(angle, type)]

\* the k-th pair of p1.planets.forEach(planetA => p2.planets.forEach(planetB =>
PairAt(c1, c2, k) ==
    <<((k - 1) \div Len(c2)) + 1, ((k - 1) % Len(c2)) + 1>>

RECURSIVE CollectUnfiltered(_, _, _)
\* the double loop without the if (type) guard around the push
CollectUnfiltered(c1, c2, k) ==
    IF k = 0 THEN <<>>
    ELSE Append(CollectUnfiltered(c1, c2, k - 1),
                PairRecord(c1[PairAt(c1, c2, k)[1]], c2[PairAt(c1, c2, k)[2]]))

RECURSIVE CollectAspects(_, _, _)
\* the aspects array after the first k pairs of the double loop
CollectAspects(c1, c2, k) ==
    IF k = 0 THEN <<>>
    ELSE LET ij  == PairAt(c1, c2, k)
             rec == PairRecord(c1[ij[1]], c2[ij[2]])
             before == CollectAspects(c1, c2, k - 1)
         IN  IF rec.aspectType # "" THEN Append(before, rec) ELSE before

\* an insertion that places x in front of the elements of equal orb (unstable sort)
RECURSIVE InsertBeforeEqual(_, _)
InsertBeforeEqual(sorted, x) ==
    IF sorted = <<>> THEN <<x>>
    ELSE IF x.orb - Head(sorted).orb <= 0
         THEN <<x>> \o sorted
         ELSE <<Head(sorted)>> \o InsertBeforeEqual(Tail(sorted), x)

\* x placed into an orb-sorted list behind every element whose orb is not larger
RECURSIVE InsertByOrb(_, _)
InsertByOrb(sorted, x) ==
    IF sorted = <<>> THEN <<x>>
    ELSE IF x.orb - Head(sorted).orb < 0
         THEN <<x>> \o sorted
         ELSE <<Head(sorted)>> \o InsertByOrb(Tail(sorted), x)

\* aspects.sort((a, b) => a.orb - b.orb): Array.prototype.sort is stable
RECURSIVE SortByOrb(_)
SortByOrb(s) ==
    IF s = <<>> THEN <<>>
    ELSE InsertByOrb(SortByOrb(SubSeq(s, 1, Len(s) - 1)), s[Len(s)])

\* a slice that keeps the last n elements instead of the first n
SliceTail(s, n) == SubSeq(s, Len(s) - Min(Len(s), n) + 1, Len(s))

\* .slice(0, n)
Slice(s, n) == SubSeq(s, 1, Min(Len(s), n))

calculateAspects(c1, c2) ==
    Slice(SortByOrb(CollectAspects(c1, c2, Len(c1) * Len(c2))), TopAspects)

----------------------------------------------------------------------------
(* getZodiacInfo, calculateAscendant, calculateChart *)

PLANET_SYMBOLS ==
    [Sun |-> "U+2609", Moon |-> "U+263D", Mercury |-> "U+263F",
     Venus |-> "U+2640", Mars |-> "U+2642", Jupiter |-> "U+2643",
     Saturn |-> "U+2644", Uranus |-> "U+2645", Neptune |-> "U+2646",
     Pluto |-> "U+2647"]

\* startDegree is in whole degrees, as in the table
ZODIAC_SIGNS ==
    <<[name |-> "Aries",       symbol |-> "U+2648", startDegree |-> 0,   element |-> "fire"],
      [name |-> "Taurus",      symbol |-> "U+2649", startDegree |-> 30,  element |-> "earth"],
      [name |-> "Gemini",      symbol |-> "U+264A", startDegree |-> 60,  element |-> "air"],
      [name |-> "Cancer",      symbol |-> "U+264B", startDegree |-> 90,  element |-> "water"],
      [name |-> "Leo",         symbol |-> "U+264C", startDegree |-> 120, element |-> "fire"],
      [name |-> "Virgo",       symbol |-> "U+264D", startDegree |-> 150, element |-> "earth"],
      [name |-> "Libra",       symbol |-> "U+264E", startDegree |-> 180, element |-> "air"],
      [name |-> "Scorpio",     symbol |-> "U+264F", startDegree |-> 210, element |-> "water"],
      [name |-> "Sagittarius", symbol |-> "U+2650", startDegree |-> 240, element |-> "fire"],
      [name |-> "Capricorn",   symbol |-> "U+2651", startDegree |-> 270, element |-> "earth"],
      [name |-> "Aquarius",    symbol |-> "U+2652", startDegree |-> 300, element |-> "air"],
      [name |-> "Pisces",      symbol |-> "U+2653", startDegree |-> 330, element |-> "water"]>>

\* the % of JavaScript: the remainder has the sign of the dividend
JsRem(a, n) == IF a >= 0 THEN a % n ELSE -((-a) % n)

\* the expression without the + 360
NormalizeNoShift(v) == JsRem(v, FullCircle)

\* (v + 360) % 360
Normalize(v) == JsRem(v + FullCircle, FullCircle)

\* ZODIAC_SIGNS.findIndex(z => z.name === name): 0-based, -1 when absent
FindSignIndex(name) ==
    IF \E i \in 1..Len(ZODIAC_SIGNS) : ZODIAC_SIGNS[i].name = name
    THEN (CHOOSE i \in 1..Len(ZODIAC_SIGNS) :
             /\ ZODIAC_SIGNS[i].name = name
             /\ \A j \in 1..(i - 1) : ZODIAC_SIGNS[j].name # name) - 1
    ELSE -1

\* a lookup that counts a longitude on a sign boundary to the sign before it
getZodiacInfoUpperInclusive(longitude) ==
    LET norm      == Normalize(longitude)
        signIndex == IF norm > 0 THEN (norm - 1) \div Deg(30) ELSE 0
    IN  [sign |-> ZODIAC_SIGNS[signIndex + 1],
         relativeDegree |-> norm - Deg(30) * signIndex]

\* getZodiacInfo(longitude): the sign entry and the degree within the sign
getZodiacInfo(longitude) ==
    LET norm      == Normalize(longitude)
        signIndex == norm \div Deg(30)
    IN  [sign |-> ZODIAC_SIGNS[signIndex + 1],
         relativeDegree |-> JsRem(norm, Deg(30))]

\* new Astronomy.Observer(lat, lon, 0) rejects a latitude outside -90..+90
\* (the library's own range check; +90 and -90 pass it)
ObserverThrows(latitude) == latitude < -90 \/ latitude > 90

\* lstDeg = (gmst + lon / 15.0) * 15.0, in whole degrees
LstDeg(hours, longitude) == hours * 15 + longitude

\* Math.cos of an angle that is a whole number of quarter turns
CosQuarter(deg) ==
    LET q == (deg % 360) \div 90
    IN  IF q = 0 THEN 1 ELSE IF q = 2 THEN -1 ELSE 0

\* Math.sin of an angle that is a whole number of quarter turns
SinQuarter(deg) ==
    LET q == (deg % 360) \div 90
    IN  IF q = 1 THEN 1 ELSE IF q = 3 THEN -1 ELSE 0

\* Math.tan(latRad) for the latitudes 0, 45 and -45
TanLat(latitude) == IF latitude = 0 THEN 0 ELSE IF latitude > 0 THEN 1 ELSE -1

\* Math.cos(eps) and Math.sin(eps) for eps = 23.4392911 degrees, in thousandths
CosEps == 917

SinEps == 398

\* const num = Math.cos(ramc)
AscNum(hours, longitude) == CosQuarter(LstDeg(hours, longitude))

\* const den = -Math.sin(ramc) * Math.cos(eps) - Math.tan(latRad) * Math.sin(eps),
\* in thousandths
AscDen(hours, longitude, latitude) ==
    (0 - SinQuarter(LstDeg(hours, longitude))) * CosEps - TanLat(latitude) * SinEps

\* calculateAscendant: the atan2 value in degrees, normalized; the code has
\* no other failure path
calculateAscendant(ascDeg) == Normalize(ascDeg)

\* the whole-sign formula without the + 12
HouseNoShift(signIndex, ascSignIndex) ==
    JsRem(signIndex - ascSignIndex, 12) + 1

\* ((signIndex - ascSignIndex + 12) % 12) + 1
House(signIndex, ascSignIndex) ==
    JsRem(signIndex - ascSignIndex + 12, 12) + 1

\* a check that only compares the two longitudes
RetrogradeNoSeam(longitude, elonNext) ==
    elonNext < longitude

\* eclipticNext.elon < longitude && (longitude - eclipticNext.elon) < 180
Retrograde(longitude, elonNext) ==
    elonNext < longitude /\ (longitude - elonNext) < HalfCircle

\* the object BODIES.map returns for one body
PlanetPosition(bodyName, longitude, elonNext, ascSignIndex) ==
    LET info      == getZodiacInfo(longitude)
        signIndex == FindSignIndex(info.sign.name)
    IN  [name           |-> bodyName,
         symbol         |-> PLANET_SYMBOLS[bodyName],
         sign           |-> info.sign.name,
         signSymbol     |-> info.sign.symbol,
         degree         |-> longitude,
         relativeDegree |-> info.relativeDegree,
         house          |-> House(signIndex, ascSignIndex),
         retrograde     |-> Retrograde(longitude, elonNext)]

\* ZODIAC_SIGNS.find(z => z.name === sign)?.element
ElementOf(signName) == ZODIAC_SIGNS[FindSignIndex(signName) + 1].element

\* counts[el] after planets.forEach
CountElement(planets, el) ==
    Cardinality({i \in 1..Len(planets) : ElementOf(planets[i].sign) = el})

\* Math.round(count / total) * 100: the factor applied after the rounding
RoundThenScale(count, total) == ((2 * count + total) \div (2 * total)) * 100

\* Math.round((count / total) * 100): the nearest integer, halves upwards
RoundPct(count, total) == (2 * count * 100 + total) \div (2 * total)

Max(a, b) == IF a >= b THEN a ELSE b

\* shares taken of the twelve signs instead of the planets
ElementsOverSigns(planets) ==
    LET total    == Len(ZODIAC_SIGNS)
        firePct  == RoundPct(CountElement(planets, "fire"), total)
        earthPct == RoundPct(CountElement(planets, "earth"), total)
        airPct   == RoundPct(CountElement(planets, "air"), total)
        waterPct == 100 - firePct - earthPct - airPct
    IN  [fire  |-> firePct,
         earth |-> earthPct,
         air   |-> airPct,
         water |-> IF waterPct < 0 THEN 0 ELSE waterPct]

\* the elements object: three rounded shares, the remainder for water, clipped
Elements(planets) ==
    LET total    == Max(Len(planets), 1)
        firePct  == RoundPct(CountElement(planets, "fire"), total)
        earthPct == RoundPct(CountElement(planets, "earth"), total)
        airPct   == RoundPct(CountElement(planets, "air"), total)
        waterPct == 100 - firePct - earthPct - airPct
    IN  [fire  |-> firePct,
         earth |-> earthPct,
         air   |-> airPct,
         water |-> IF waterPct < 0 THEN 0 ELSE waterPct]

\* a lookup that takes the first planet whatever its name
FindPlanetFirst(planets, name) == planets[1]

\* planets.find(p => p.name === name)
FindPlanet(planets, name) ==
    planets[CHOOSE i \in 1..Len(planets) :
               /\ planets[i].name = name
               /\ \A j \in 1..(i - 1) : planets[j].name # name]

\* calculateChart once the ascendant is computed; ephem[i] is what the
\* ephemeris reports for BODIES[i]
calculateChart(ascDeg, ephem) ==
    LET ascDegree    == calculateAscendant(ascDeg)
        ascInfo      == getZodiacInfo(ascDegree)
        ascSignIndex == FindSignIndex(ascInfo.sign.name)
        planets      == [i \in 1..Len(BODIES) |->
                            PlanetPosition(BODIES[i], ephem[i].elon,
                                           ephem[i].elonNext, ascSignIndex)]
    IN  [planets  |-> planets,
         rising   |-> [sign       |-> ascInfo.sign.name,
                       signSymbol |-> ascInfo.sign.symbol,
                       degree     |-> ascDegree],
         elements |-> Elements(planets),
         bigThree |-> [sun    |-> FindPlanet(planets, "Sun").sign,
                       moon   |-> FindPlanet(planets, "Moon").sign,
                       rising |-> ascInfo.sign.name]]

----------------------------------------------------------------------------
(* resolveCollisions *)

\* const diff = Math.abs(d1 - d2); return diff > 180 ? 360 - diff : diff
getDist(d1, d2) ==
    LET diff == Abs(d1 - d2)
    IN  IF diff > HalfCircle THEN FullCircle - diff ELSE diff

\* p placed into a degree-sorted list behind every element that is not larger
RECURSIVE InsertByDegree(_, _)
InsertByDegree(sorted, p) ==
    IF sorted = <<>> THEN <<p>>
    ELSE IF p.degree - Head(sorted).degree < 0
         THEN <<p>> \o sorted
         ELSE <<Head(sorted)>> \o InsertByDegree(Tail(sorted), p)

\* .sort((a, b) => a.degree - b.degree): Array.prototype.sort is stable
RECURSIVE SortByDegree(_)
SortByDegree(s) ==
    IF s = <<>> THEN <<>>
    ELSE InsertByDegree(SortByDegree(SubSeq(s, 1, Len(s) - 1)), s[Len(s)])

\* planets.sort(...): the sort applied to the argument itself
SortedInPlace(planets) ==
    [arg |-> SortByDegree(planets), sorted |-> SortByDegree(planets)]

\* [...planets].sort(...): arg is the caller's array after the statement,
\* sorted the new array
SortedCopy(planets) ==
    [arg |-> planets, sorted |-> SortByDegree(planets)]

\* "ample space" for a label (approx 15 degrees)
IsolationDeg == Deg(15)

\* an isolation test that looks at the previous neighbour only
IsIsolatedPrevOnly(sorted, k) ==
    LET n    == Len(sorted)
        prev == sorted[((k - 2 + n) % n) + 1]
    IN  IF n > 1
        THEN ~(getDist(sorted[k].degree, prev.degree) < IsolationDeg)
        ELSE TRUE

\* isIsolated of the k-th sorted planet (k = i + 1)
IsIsolated(sorted, k) ==
    LET n    == Len(sorted)
        prev == sorted[((k - 2 + n) % n) + 1]
        next == sorted[(k % n) + 1]
    IN  IF n > 1
        THEN LET dPrev == getDist(sorted[k].degree, prev.degree)
                 dNext == getDist(sorted[k].degree, next.degree)
             IN  ~(dPrev < IsolationDeg \/ dNext < IsolationDeg)
        ELSE TRUE

\* for (let j = 1; j <= 4; j++)
Lookback == 4

\* the tracks of all planets placed so far that are too close, however far back
UsedTracksAll(sorted, placed, k, md) ==
    {placed[k - j].track :
        j \in {h \in 1..Len(sorted) :
                 /\ k - h >= 1
                 /\ getDist(sorted[k].degree, placed[k - h].degree) < md}}

\* usedTracks for the k-th sorted planet, given the planets placed before it
UsedTracks(sorted, placed, k, md) ==
    {placed[k - j].track :
        j \in {h \in 1..Lookback :
                 /\ k - h >= 1
                 /\ getDist(sorted[k].degree, placed[k - h].degree) < md}}

\* a track chosen as usedTracks.size
FirstFreeTrackBySize(used) == Cardinality(used)

\* let track = 0; while (usedTracks.has(track)) track++
FirstFreeTrack(used) ==
    CHOOSE t \in 0..Cardinality(used) :
        /\ t \notin used
        /\ \A u \in 0..(t - 1) : u \in used

\* withTracks after the first k iterations of sorted.forEach
RECURSIVE WithTracks(_, _, _)
WithTracks(sorted, md, k) ==
    IF k = 0 THEN <<>>
    ELSE LET placed == WithTracks(sorted, md, k - 1)
             track  == FirstFreeTrack(UsedTracks(sorted, placed, k, md))
         IN  Append(placed,
                    [track |-> track,
                     isIsolated |-> IsIsolated(sorted, k)] @@ sorted[k])

\* a patch that moves the last planet instead of the first
WrapPatchLast(withTracks, md) ==
    IF Len(withTracks) > 1
    THEN LET first == withTracks[1]
             last  == withTracks[Len(withTracks)]
         IN  IF getDist(first.degree, last.degree) < md /\ first.track = last.track
             THEN [withTracks EXCEPT ![Len(withTracks)].track = last.track + 1]
             ELSE withTracks
    ELSE withTracks

\* the wrap-around patch: first.track = first.track + 1
WrapPatch(withTracks, md) ==
    IF Len(withTracks) > 1
    THEN LET first == withTracks[1]
             last  == withTracks[Len(withTracks)]
         IN  IF getDist(first.degree, last.degree) < md /\ first.track = last.track
             THEN [withTracks EXCEPT ![1].track = first.track + 1]
             ELSE withTracks
    ELSE withTracks

\* const resolveCollisions = (planets, minDeg: number = 6)
DefaultMinDeg == Deg(6)

\* resolveCollisions(planets, minDeg): arg is the caller's array after the
\* call, out the returned array
resolveCollisions(planets, md) ==
    LET c == SortedCopy(planets)
    IN  [arg |-> c.arg,
         out |-> WrapPatch(WithTracks(c.sorted, md, Len(c.sorted)), md)]

----------------------------------------------------------------------------
(* aspectLines *)

\* what hoveredPlanet || selectedPlanet is when neither is set (null)
NoActive == [name |-> "", owner |-> ""]

\* plottedPlanetsA / plottedPlanetsB: the resolved planets with their owner
\* (the coordinates are not modelled)
Plotted(planets, owner) ==
    LET resolved == resolveCollisions(planets, DefaultMinDeg).out
    IN  [k \in 1..Len(resolved) |-> [owner |-> owner] @@ resolved[k]]

\* the else-if chain of aspectLines: '' when no band matches
WheelAspectType(normDiff, secondary) ==
    IF Abs(normDiff - Deg(180)) < Deg(6) THEN "opposition"
    ELSE IF Abs(normDiff - Deg(120)) < Deg(6) THEN "trine"
    ELSE IF Abs(normDiff - Deg(90)) < Deg(6) THEN "square"
    ELSE IF Abs(normDiff - Deg(60)) < Deg(4) THEN "sextile"
    ELSE IF Abs(normDiff - 0) < Deg(6) /\ secondary THEN "conjunction"
    ELSE ""

\* p1IsActive / p2IsActive
IsActivePlanet(p, active) ==
    p.name = active.name /\ p.owner = active.owner

\* the body of the inner forEach for set1[i], set2[j] (1-based): the lines
\* it pushes, none when it returns early
LineFor(set1, set2, i, j, props) ==
    LET a        == set1[i]
        b        == set2[j]
        diff     == Abs(a.degree - b.degree)
        normDiff == IF diff > HalfCircle THEN FullCircle - diff ELSE diff
        type     == WheelAspectType(normDiff, props.secondary)
    IN  IF ~props.secondary /\ i >= j THEN <<>>
        ELSE IF /\ props.active # NoActive
                /\ ~IsActivePlanet(a, props.active)
                /\ ~IsActivePlanet(b, props.active) THEN <<>>
        ELSE IF type = "" THEN <<>>
        ELSE <<[a |-> a.name, ownerA |-> a.owner,
                b |-> b.name, ownerB |-> b.owner, type |-> type]>>

\* lines after the first k steps of the nested forEach
RECURSIVE CollectLines(_, _, _, _)
CollectLines(set1, set2, props, k) ==
    IF k = 0 THEN <<>>
    ELSE LET i == ((k - 1) \div Len(set2)) + 1
             j == ((k - 1) % Len(set2)) + 1
         IN  CollectLines(set1, set2, props, k - 1) \o LineFor(set1, set2, i, j, props)

\* the aspectLines memo for data.planets, secondaryData.planets and the props
aspectLines(planetsA, planetsB, props) ==
    LET set1 == Plotted(planetsA, "A")
        set2 == IF props.secondary THEN Plotted(planetsB, "B") ELSE set1
    IN  CollectLines(set1, set2, props, Len(set1) * Len(set2))

----------------------------------------------------------------------------
(* enrichChart *)

\* what find(...)?.interpretation gives when no element matches
Undefined == "undefined"

\* validated.planets.find(ip => ip.name === p.name)?.interpretation
FindInterpretation(replies, bodyName) ==
    LET hits == {k \in 1..Len(replies) : replies[k].name = bodyName}
    IN  IF hits = {} THEN Undefined
        ELSE replies[CHOOSE k \in hits : \A h \in hits : k <= h].interpretation

\* ... || "A mysterious placement.": undefined and "" are falsy
Interpretation(replies, bodyName) ==
    LET found == FindInterpretation(replies, bodyName)
    IN  IF found = Undefined \/ found = "" THEN "A mysterious placement." ELSE found

\* a merge that maps over the answer and looks the planet up by name
MergedFromReplies(planets, replies) ==
    LET known == SelectSeq(replies, LAMBDA ip : \E k \in 1..Len(planets) : planets[k].name = ip.name)
    IN  [k \in 1..Len(known) |->
            [interpretation |-> known[k].interpretation] @@ FindPlanet(planets, known[k].name)]

\* chart.planets.map(p => ({ ...p, interpretation }))
MergedPlanets(planets, replies) ==
    [k \in 1..Len(planets) |->
        [interpretation |-> Interpretation(replies, planets[k].name)] @@ planets[k]]

\* the value enrichChart returns once the answer has passed validation:
\* { ...chart, name, planets: mergedPlanets, summary: validated.summary }
enrichChart(calculated, personName, validated) ==
    [name    |-> personName,
     planets |-> MergedPlanets(calculated.planets, validated.planets),
     summary |-> validated.summary] @@ calculated

----------------------------------------------------------------------------
(* App and BirthForm *)

\* null in a useState of an object type
Null == [kind |-> "null"]

\* the useState initial values of App
AppInitial ==
    [step |-> "input", isLoading |-> FALSE, loadingStep |-> "",
     chartData |-> Null, isSynastry |-> FALSE, selectedPlanet |-> Null,
     error |-> Null]

\* the useState initial value of BirthForm's mode
FormInitial == [mode |-> "natal"]

\* the error the catch block of handleCalculate sets
ErrorMessage ==
    [kind |-> "message", text |-> "Alignment Error. Please verify your coordinates."]

\* the form can be submitted: <button type="submit" disabled={isLoading}>,
\* in the BirthForm that is rendered while step is 'input'
SubmitEnabled(state) == state.step = "input" /\ ~state.isLoading

\* handleCalculate up to its await: the state after lines 19 to 30
BeforeAwait(state, synastry) ==
    [state EXCEPT !.isLoading = TRUE,
                  !.loadingStep = IF synastry THEN "Calculating Synastry Aspects..."
                                  ELSE "Constructing Natal Chart...",
                  !.error = Null]

\* a continuation that does not run the finally block after a failure
AfterAwaitNoFinally(state, run) ==
    IF run.at = "resolved"
    THEN [state EXCEPT !.chartData = run.data,
                       !.isSynastry = run.synastry,
                       !.step = "result",
                       !.isLoading = FALSE,
                       !.loadingStep = ""]
    ELSE [state EXCEPT !.error = ErrorMessage]

\* handleCalculate after its await: the try block's tail or the catch block,
\* then the finally block
AfterAwait(state, run) ==
    LET settled ==
            IF run.at = "resolved"
            THEN [state EXCEPT !.chartData = run.data,
                               !.isSynastry = run.synastry,
                               !.step = "result"]
            ELSE [state EXCEPT !.error = ErrorMessage]
    IN  [settled EXCEPT !.isLoading = FALSE, !.loadingStep = ""]

\* a reset that keeps the chart
handleResetKeepsChart(state) ==
    [state EXCEPT !.step = "input", !.selectedPlanet = Null, !.isSynastry = FALSE]

\* handleReset
handleReset(state) ==
    [state EXCEPT !.step = "input", !.chartData = Null,
                  !.selectedPlanet = Null, !.isSynastry = FALSE]

\* getDataForWheel
getDataForWheel(state) ==
    IF state.chartData = Null THEN [primary |-> Null, secondary |-> Null]
    ELSE IF state.isSynastry
         THEN [primary |-> state.chartData.personA, secondary |-> state.chartData.personB]
         ELSE [primary |-> state.chartData, secondary |-> Null]

----------------------------------------------------------------------------
(* analyzeSynastry *)

\* a merge that looks the calculated aspect up by its two planets only
KeyAspectsByPair(keyAspects, calculated) ==
    [k \in 1..Len(keyAspects) |->
        LET ka   == keyAspects[k]
            hits == {j \in 1..Len(calculated) :
                        /\ calculated[j].planetA = ka.planetA
                        /\ calculated[j].planetB = ka.planetB}
        IN  [orb |-> IF hits = {} THEN 0
                     ELSE calculated[CHOOSE j \in hits : \A h \in hits : j <= h].orb] @@ ka]

\* analysis.keyAspects.map(ka => ({ ...ka, orb: original ? original.orb : 0 }))
\* with original = aspects.find(a => same planetA, planetB and aspectType)
KeyAspects(keyAspects, calculated) ==
    [k \in 1..Len(keyAspects) |->
        LET ka   == keyAspects[k]
            hits == {j \in 1..Len(calculated) :
                        /\ calculated[j].planetA = ka.planetA
                        /\ calculated[j].planetB = ka.planetB
                        /\ calculated[j].aspectType = ka.aspectType}
        IN  [orb |-> IF hits = {} THEN 0
                     ELSE calculated[CHOOSE j \in hits : \A h \in hits : j <= h].orb] @@ ka]

\* the locals of analyzeSynastry when it is called
SynastryInitial ==
    [details    |-> <<"pending", "pending">>,
     located    |-> <<Null, Null>>,
     c1         |-> Null,
     c2         |-> Null,
     aspects    |-> <<>>,
     p1Enriched |-> Null,
     p2Enriched |-> Null,
     analysis   |-> Null,
     returned   |-> Null]

\* the SynastryData analyzeSynastry returns
SynastryData(p1Enriched, p2Enriched, analysis, calculated) ==
    [kind     |-> "SynastryData",
     personA  |-> p1Enriched,
     personB  |-> p2Enriched,
     analysis |-> [keyAspects |-> KeyAspects(analysis.keyAspects, calculated)] @@ analysis]

----------------------------------------------------------------------------
(* Inputs *)

\* the planet calculateChart builds for body i standing still at longitude d,
\* for an ascendant in Aries
Planet(i, d) == PlanetPosition(BODIES[i], d, d, 0)

\* longitudes planet A of a single-pair input is placed at
AnchorLongitudes == <<Deg(10), Deg(95), 0, FullCircle - 1>>

Anchors == {AnchorLongitudes[k] : k \in 1..NumAnchors}

\* longitudes the planets of a multi-planet input are placed at: the first
\* two give conjunctions (orb 0) and sextiles (orb 1), the third adds squares
\* (orb 2) and unaspected pairs
SampleLongitudes == <<0, Deg(61), Deg(153), 2758, Deg(180)>>

Samples == {SampleLongitudes[k] : k \in 1..NumSamples}

\* the charts of n planets (the first n bodies) placed on the longitudes in S
ChartsOver(n, S) ==
    {[i \in 1..n |-> Planet(i, f[i])] : f \in [1..n -> S]}

SampledCharts == UNION {ChartsOver(n, Samples) : n \in 1..MaxPlanets}


\* latitudes calculateChart is called with, in degrees: the equator, both
\* poles and values the Observer constructor rejects
LatSamples == <<0, 90, -90, 91, -91, 45>>

Lats == {LatSamples[k] : k \in 1..NumLats}

\* values of atan2 in degrees, all in [-180, 180); the first twelve normalize
\* to one longitude in each of the twelve signs
AscSamples == {((k * 1505) % FullCircle) - HalfCircle : k \in 0..(NumAscendants - 1)}

\* the values Math.atan2(y, x) * 180 / PI can have: exact on the axes, and
\* otherwise one of the sampled values inside the open quadrant of (x, y)
Atan2Values(y, x) ==
    IF y = 0 THEN (IF x < 0 THEN {Deg(180)} ELSE {0})
    ELSE IF x = 0 THEN (IF y > 0 THEN {Deg(90)} ELSE {-Deg(90)})
    ELSE {a \in AscSamples :
            /\ (y > 0) = (a > 0)
            /\ a # 0 /\ a # -Deg(180)
            /\ (x > 0) = (Abs(a) < Deg(90))
            /\ Abs(a) # Deg(90)}

\* Math.atan2(den, num): the arguments in the other order
AscendantAtan2Swapped(num, den) == Atan2Values(den, num)

\* Math.atan2(num, den) in degrees
AscendantAtan2(num, den) == Atan2Values(num, den)

\* sidereal times, longitudes and latitudes for which the trigonometry of
\* calculateAscendant is exact: ramc a whole number of quarter turns
GmstSamples == {0, 6, 12, 18}

LonSamples == {-180, -90, 0, 90, 180}

AscLats == {0, 45, -45}

\* names of the subjects the analyses are made for
SubjectNames == <<"Ada", "Bo", "Cy", "Di">>

\* what analyzeBirthChart resolves with: a ChartData, of which the name is kept
NatalResults ==
    {[kind |-> "ChartData", name |-> SubjectNames[n]] : n \in 1..NumSubjects}

\* what analyzeSynastry resolves with: a SynastryData of two ChartData
SynastryResults ==
    {[kind |-> "SynastryData", personA |-> a, personB |-> b] :
        a \in NatalResults, b \in NatalResults}

\* ecliptic longitudes of the second subject's planets
PartnerLongitudes == <<Deg(10), Deg(98), Deg(155), Deg(215)>>

Partners == {PartnerLongitudes[k] : k \in 1..NumSamples}

\* the names in the two birth details
SynastryNames == <<SubjectNames[1], SubjectNames[2]>>

\* the chart calculateChart returns for the details resolved for subject i,
\* of which the planets are kept: Sun and Moon on the sampled longitudes
LocatedCharts(i) ==
    {[planets |-> c] :
        c \in ChartsOver(2, IF i = 1 THEN Anchors ELSE Partners)}

\* what generateContent answers to the request of enrichChart
SynastryInterpretations ==
    {[kind |-> "empty"],
     [kind |-> "valid", summary |-> "a soul signature",
      planets |-> <<[name |-> "Sun", interpretation |-> "text one"]>>]}

\* the items of keyAspects in an answer: aspects that were calculated,
\* aspects of another type and pairs without an aspect
KeyAspectItems ==
    [planetA : {"Sun", "Moon"}, planetB : {"Sun", "Moon"},
     aspectType : {"Conjunction", "Square", "Trine"},
     description : {"a key aspect"}]

\* what generateContent answers to the synastry request: no text, or an
\* object that passes SynastryAnalysisSchema
SynastryAnswers ==
    {[kind |-> "empty"]}
        \cup {[kind |-> "valid", overview |-> "an overview",
               strengths |-> <<"s">>, challenges |-> <<"c">>, keyAspects |-> l] :
                 l \in UNION {[1..n -> KeyAspectItems] : n \in 0..MaxKeyAspects}}

\* the planets a click on the wheel can select
Selectable == {BODIES[1], BODIES[2]}

\* the props of the wheel: natal or synastry mode, no active planet or the
\* Sun of the first chart selected
WheelProps ==
    [secondary : BOOLEAN, active : {NoActive, [name |-> "Sun", owner |-> "A"]}]

\* the element (0 fire, 1 earth, 2 air, 3 water) of body i when the first a
\* bodies are in fire signs, the next up to b in earth, up to c in air
ElementSlot(i, a, b, c) ==
    IF i <= a THEN 0 ELSE IF i <= b THEN 1 ELSE IF i <= c THEN 2 ELSE 3

\* an ephemeris answer for every body: body i in a sign of its element slot
\* (Aries..Cancer, Leo..Scorpio or Sagittarius..Pisces), moving forward by
\* 0.4 degrees in the hour or backward by 0.3
SkyFor(a, b, c, s) ==
    [i \in 1..Len(BODIES) |->
        LET sign  == ElementSlot(i, a, b, c) + 4 * ((i + s) % 3)
            elon  == Deg(30 * sign + ((7 * i + 11 * s) % 30)) + 5 * ((i + s) % 2)
            drift == IF (i + s) % 4 = 0 THEN -3 ELSE 4
        IN  [elon |-> elon, elonNext |-> (elon + drift + FullCircle) % FullCircle]]

\* skies for every distribution of the ten bodies over the four elements
Skies ==
    {SkyFor(a, b, c, s) :
        a \in 0..Len(BODIES), b \in 0..Len(BODIES), c \in 0..Len(BODIES),
        s \in 0..(NumVariants - 1)}

\* skies in which the Sun moves forward across the 0/360 seam within the
\* hour, the Moon moves backward across it and Mercury stands still
SeamSkies ==
    {[SkyFor(3, 5, 8, s) EXCEPT
         ![1] = [elon |-> FullCircle - 2 - s, elonNext |-> 2],
         ![2] = [elon |-> 1 + s, elonNext |-> FullCircle - 2],
         ![3] = [elon |-> Deg(200) + s, elonNext |-> Deg(200) + s]] :
        s \in 0..(NumVariants - 1)}

NormalizeInputs == (-(MaxTurns * FullCircle))..(MaxTurns * FullCircle)

\* the charts enrichChart is called with
EnrichCharts ==
    {calculateChart(Deg(100 * s) - HalfCircle, SkyFor(3, 5, 8, s)) : s \in 0..(NumVariants - 1)}

\* the items of the planets array of an answer: bodies of the chart and a
\* name that is not in it, with an interpretation or an empty string
ReplyItems ==
    [name : {"Sun", "Moon", "Ceres"}, interpretation : {"", "text one", "text two"}]

\* the planets arrays of an answer: missing, extra and duplicate names
ReplyLists == UNION {[1..n -> ReplyItems] : n \in 0..MaxReplies}

\* what generateContent resolves to: no text, text that JSON.parse or
\* InterpretationSchema.parse rejects, or a validated object
Responses ==
    {[kind |-> "empty"], [kind |-> "rejected"]}
        \cup {[kind |-> "valid", planets |-> l, summary |-> "a soul signature"] :
                 l \in ReplyLists}


\* gaps between one planet of a ring and the next one, in the order the
\* caller's array lists them: inside a cluster, far apart, tightly packed
GapSamples == <<Deg(2), Deg(94), Deg(1), 0>>

Gaps == {GapSamples[k] : k \in 1..NumGaps}

\* the longitude of the first planet of a ring; a ring that starts at 359
\* continues across the 0/360 seam, so that the array is not sorted
StartSamples == <<0, Deg(359), Deg(180)>>

Starts == {StartSamples[k] : k \in 1..NumStarts}

MinDegSamples == <<DefaultMinDeg, Deg(12), Deg(3)>>

MinDegs == {MinDegSamples[k] : k \in 1..NumMinDegs}

\* the sequences of n longitudes that start at d and advance by a gap
RECURSIVE RingDegrees(_, _)
RingDegrees(d, n) ==
    IF n = 1 THEN {<<d>>}
    ELSE {<<d>> \o r : r \in UNION {RingDegrees((d + g) % FullCircle, n - 1) : g \in Gaps}}

\* the planets arrays a wheel is drawn for: body i at the i-th longitude
Rings ==
    {[i \in 1..Len(r) |-> Planet(i, r[i])] :
        r \in UNION {RingDegrees(d, n) : d \in Starts, n \in 1..MaxRing}}


----------------------------------------------------------------------------
(* The state machine *)

InitAspects ==
    /\ op = "calculateAspects"
    /\ pc = "input"
    /\ \/ /\ p1 \in ChartsOver(1, Anchors)
          /\ p2 \in ChartsOver(1, Longitudes)
       \/ /\ p1 \in SampledCharts
          /\ p2 \in SampledCharts
    /\ aspects = <<>>
    /\ lat = Unused /\ atan2Deg = Unused /\ sky = Unused /\ chart = Unused
    /\ value = Unused /\ normalized = Unused
    /\ subject = Unused /\ response = Unused /\ enriched = Unused
    /\ zodiacInfo = Unused
    /\ ring = Unused /\ minDeg = Unused /\ layout = Unused
    /\ gmst = Unused /\ lon = Unused /\ ascendant = Unused
    /\ wheel = Unused /\ lines = Unused
    /\ app = Unused /\ form = Unused /\ runs = Unused
    /\ syn = Unused

\* one call of calculateAspects(p1, p2)
CalculateAspects ==
    /\ op = "calculateAspects"
    /\ pc = "input"
    /\ aspects' = calculateAspects(p1, p2)
    /\ pc' = "done"
    /\ UNCHANGED <<op, p1, p2, lat, atan2Deg, sky, chart, value, normalized, ring, minDeg, layout, subject, response, enriched, zodiacInfo, gmst, lon, ascendant, wheel, lines, app, form, runs, syn>>

NextAspects == CalculateAspects

SpecAspects == InitAspects /\ [][NextAspects]_vars

InitChart ==
    /\ op = "calculateChart"
    /\ pc = "input"
    /\ lat \in Lats
    /\ atan2Deg \in AscSamples
    /\ sky \in Skies \cup SeamSkies
    /\ chart = Unused
    /\ p1 = Unused /\ p2 = Unused /\ aspects = Unused
    /\ value = Unused /\ normalized = Unused
    /\ subject = Unused /\ response = Unused /\ enriched = Unused
    /\ zodiacInfo = Unused
    /\ ring = Unused /\ minDeg = Unused /\ layout = Unused
    /\ gmst = Unused /\ lon = Unused /\ ascendant = Unused
    /\ wheel = Unused /\ lines = Unused
    /\ app = Unused /\ form = Unused /\ runs = Unused
    /\ syn = Unused

\* one call of calculateChart(date, lat, lon) that returns
CalculateChart ==
    /\ op = "calculateChart"
    /\ pc = "input"
    /\ ~ObserverThrows(lat)
    /\ chart' = calculateChart(atan2Deg, sky)
    /\ pc' = "done"
    /\ UNCHANGED <<op, p1, p2, aspects, lat, atan2Deg, sky, value, normalized, ring, minDeg, layout, subject, response, enriched, zodiacInfo, gmst, lon, ascendant, wheel, lines, app, form, runs, syn>>

\* one call of calculateChart in which new Astronomy.Observer throws
CalculateChartThrows ==
    /\ op = "calculateChart"
    /\ pc = "input"
    /\ ObserverThrows(lat)
    /\ pc' = "failed"
    /\ UNCHANGED <<op, p1, p2, aspects, lat, atan2Deg, sky, chart, value, normalized, ring, minDeg, layout, subject, response, enriched, zodiacInfo, gmst, lon, ascendant, wheel, lines, app, form, runs, syn>>

NextChart == CalculateChart \/ CalculateChartThrows

SpecChart == InitChart /\ [][NextChart]_vars

InitNormalize ==
    /\ op = "normalize"
    /\ pc = "input"
    /\ value \in NormalizeInputs
    /\ normalized = Unused
    /\ p1 = Unused /\ p2 = Unused /\ aspects = Unused
    /\ lat = Unused /\ atan2Deg = Unused /\ sky = Unused /\ chart = Unused
    /\ ring = Unused /\ minDeg = Unused /\ layout = Unused
    /\ subject = Unused /\ response = Unused /\ enriched = Unused
    /\ zodiacInfo = Unused
    /\ gmst = Unused /\ lon = Unused /\ ascendant = Unused
    /\ wheel = Unused /\ lines = Unused
    /\ app = Unused /\ form = Unused /\ runs = Unused
    /\ syn = Unused

\* (value + 360) % 360 evaluated once
NormalizeValue ==
    /\ op = "normalize"
    /\ pc = "input"
    /\ normalized' = Normalize(value)
    /\ pc' = "done"
    /\ UNCHANGED <<op, p1, p2, aspects, lat, atan2Deg, sky, chart, value, ring, minDeg, layout, subject, response, enriched, zodiacInfo, gmst, lon, ascendant, wheel, lines, app, form, runs, syn>>

\* the result passed through the expression again, as calculateChart does
\* with the ascendant calculateAscendant returned
NormalizeAgain ==
    /\ op = "normalize"
    /\ pc = "done"
    /\ value' = normalized
    /\ normalized' = Normalize(normalized)
    /\ pc' = "again"
    /\ UNCHANGED <<op, p1, p2, aspects, lat, atan2Deg, sky, chart, ring, minDeg, layout, subject, response, enriched, zodiacInfo, gmst, lon, ascendant, wheel, lines, app, form, runs, syn>>

NextNormalize == NormalizeValue \/ NormalizeAgain

SpecNormalize == InitNormalize /\ [][NextNormalize]_vars

InitLayout ==
    /\ op = "resolveCollisions"
    /\ pc = "input"
    /\ ring \in Rings
    /\ minDeg \in MinDegs
    /\ layout = <<>>
    /\ p1 = Unused /\ p2 = Unused /\ aspects = Unused
    /\ lat = Unused /\ atan2Deg = Unused /\ sky = Unused /\ chart = Unused
    /\ value = Unused /\ normalized = Unused
    /\ subject = Unused /\ response = Unused /\ enriched = Unused
    /\ zodiacInfo = Unused
    /\ gmst = Unused /\ lon = Unused /\ ascendant = Unused
    /\ wheel = Unused /\ lines = Unused
    /\ app = Unused /\ form = Unused /\ runs = Unused
    /\ syn = Unused

\* one call of resolveCollisions(ring, minDeg)
ResolveCollisions ==
    /\ op = "resolveCollisions"
    /\ pc = "input"
    /\ LET r == resolveCollisions(ring, minDeg)
       IN  /\ layout' = r.out
           /\ ring' = r.arg
    /\ pc' = "done"
    /\ UNCHANGED <<op, p1, p2, aspects, lat, atan2Deg, sky, chart, value, normalized, minDeg, subject, response, enriched, zodiacInfo, gmst, lon, ascendant, wheel, lines, app, form, runs, syn>>

NextLayout == ResolveCollisions

SpecLayout == InitLayout /\ [][NextLayout]_vars

\* a wheel drawn for two charts: p1 is data.planets, p2 secondaryData.planets;
\* pc holds the last call and the calls made so far, layout holds what
\* resolveCollisions returned for plottedPlanetsA and plottedPlanetsB
InitWheel ==
    /\ op = "wheel"
    /\ pc = [last |-> "input", made |-> {}]
    /\ p1 \in SampledCharts
    /\ p2 \in SampledCharts
    /\ aspects = <<>>
    /\ layout = [A |-> <<>>, B |-> <<>>]
    /\ minDeg = DefaultMinDeg
    /\ ring = Unused
    /\ lat = Unused /\ atan2Deg = Unused /\ sky = Unused /\ chart = Unused
    /\ value = Unused /\ normalized = Unused
    /\ subject = Unused /\ response = Unused /\ enriched = Unused
    /\ zodiacInfo = Unused
    /\ gmst = Unused /\ lon = Unused /\ ascendant = Unused
    /\ wheel = Unused /\ lines = Unused
    /\ app = Unused /\ form = Unused /\ runs = Unused
    /\ syn = Unused

Called(name) == [last |-> name, made |-> pc.made \cup {name}]

\* calculateAspects(p1, p2), which assigns to neither argument
SynastryAspects ==
    /\ op = "wheel"
    /\ aspects' = calculateAspects(p1, p2)
    /\ pc' = Called("calculateAspects")
    /\ UNCHANGED <<op, p1, p2, lat, atan2Deg, sky, chart, value, normalized, ring, minDeg, layout, subject, response, enriched, zodiacInfo, gmst, lon, ascendant, wheel, lines, app, form, runs, syn>>

\* plottedPlanetsA = resolveCollisions(data.planets)
PlotPlanetsA ==
    /\ op = "wheel"
    /\ LET r == resolveCollisions(p1, minDeg)
       IN  /\ layout' = [layout EXCEPT !.A = r.out]
           /\ p1' = r.arg
    /\ pc' = Called("plottedPlanetsA")
    /\ UNCHANGED <<op, p2, aspects, lat, atan2Deg, sky, chart, value, normalized, ring, minDeg, subject, response, enriched, zodiacInfo, gmst, lon, ascendant, wheel, lines, app, form, runs, syn>>

\* plottedPlanetsB = resolveCollisions(secondaryData.planets)
PlotPlanetsB ==
    /\ op = "wheel"
    /\ LET r == resolveCollisions(p2, minDeg)
       IN  /\ layout' = [layout EXCEPT !.B = r.out]
           /\ p2' = r.arg
    /\ pc' = Called("plottedPlanetsB")
    /\ UNCHANGED <<op, p1, aspects, lat, atan2Deg, sky, chart, value, normalized, ring, minDeg, subject, response, enriched, zodiacInfo, gmst, lon, ascendant, wheel, lines, app, form, runs, syn>>

NextWheel == SynastryAspects \/ PlotPlanetsA \/ PlotPlanetsB

SpecWheel == InitWheel /\ [][NextWheel]_vars

InitEnrich ==
    /\ op = "enrichChart"
    /\ pc = "input"
    /\ chart \in EnrichCharts
    /\ subject \in {"", "Ada"}
    /\ response \in Responses
    /\ enriched = Unused
    /\ p1 = Unused /\ p2 = Unused /\ aspects = Unused
    /\ lat = Unused /\ atan2Deg = Unused /\ sky = Unused
    /\ value = Unused /\ normalized = Unused
    /\ ring = Unused /\ minDeg = Unused /\ layout = Unused
    /\ zodiacInfo = Unused
    /\ gmst = Unused /\ lon = Unused /\ ascendant = Unused
    /\ wheel = Unused /\ lines = Unused
    /\ app = Unused /\ form = Unused /\ runs = Unused
    /\ syn = Unused

\* enrichChart(chart, subject) when the answer passes validation
EnrichChart ==
    /\ op = "enrichChart"
    /\ pc = "input"
    /\ response.kind = "valid"
    /\ enriched' = enrichChart(chart, subject, response)
    /\ pc' = "done"
    /\ UNCHANGED <<op, p1, p2, aspects, lat, atan2Deg, sky, chart, value, normalized, ring, minDeg, layout, subject, response, zodiacInfo, gmst, lon, ascendant, wheel, lines, app, form, runs, syn>>

\* if (!response.text) throw ...; JSON.parse / InterpretationSchema.parse throw
EnrichChartThrows ==
    /\ op = "enrichChart"
    /\ pc = "input"
    /\ response.kind # "valid"
    /\ pc' = "failed"
    /\ UNCHANGED <<op, p1, p2, aspects, lat, atan2Deg, sky, chart, value, normalized, ring, minDeg, layout, subject, response, enriched, zodiacInfo, gmst, lon, ascendant, wheel, lines, app, form, runs, syn>>

NextEnrich == EnrichChart \/ EnrichChartThrows

SpecEnrich == InitEnrich /\ [][NextEnrich]_vars

InitZodiac ==
    /\ op = "getZodiacInfo"
    /\ pc = "input"
    /\ value \in Longitudes
    /\ zodiacInfo = Unused
    /\ normalized = Unused
    /\ p1 = Unused /\ p2 = Unused /\ aspects = Unused
    /\ lat = Unused /\ atan2Deg = Unused /\ sky = Unused /\ chart = Unused
    /\ ring = Unused /\ minDeg = Unused /\ layout = Unused
    /\ subject = Unused /\ response = Unused /\ enriched = Unused
    /\ gmst = Unused /\ lon = Unused /\ ascendant = Unused
    /\ wheel = Unused /\ lines = Unused
    /\ app = Unused /\ form = Unused /\ runs = Unused
    /\ syn = Unused

\* one call of getZodiacInfo(value)
GetZodiacInfo ==
    /\ op = "getZodiacInfo"
    /\ pc = "input"
    /\ zodiacInfo' = getZodiacInfo(value)
    /\ pc' = "done"
    /\ UNCHANGED <<op, p1, p2, aspects, lat, atan2Deg, sky, chart, value, normalized, ring, minDeg, layout, subject, response, enriched, gmst, lon, ascendant, wheel, lines, app, form, runs, syn>>

NextZodiac == GetZodiacInfo

SpecZodiac == InitZodiac /\ [][NextZodiac]_vars

InitAscendant ==
    /\ op = "calculateAscendant"
    /\ pc = "input"
    /\ gmst \in GmstSamples
    /\ lon \in LonSamples
    /\ lat \in AscLats
    /\ atan2Deg \in AscendantAtan2(AscNum(gmst, lon), AscDen(gmst, lon, lat))
    /\ ascendant = Unused
    /\ p1 = Unused /\ p2 = Unused /\ aspects = Unused
    /\ sky = Unused /\ chart = Unused
    /\ value = Unused /\ normalized = Unused
    /\ ring = Unused /\ minDeg = Unused /\ layout = Unused
    /\ subject = Unused /\ response = Unused /\ enriched = Unused
    /\ zodiacInfo = Unused
    /\ wheel = Unused /\ lines = Unused
    /\ app = Unused /\ form = Unused /\ runs = Unused
    /\ syn = Unused

\* one call of calculateAscendant(date, lat, lon)
CalculateAscendant ==
    /\ op = "calculateAscendant"
    /\ pc = "input"
    /\ ascendant' = calculateAscendant(atan2Deg)
    /\ pc' = "done"
    /\ UNCHANGED <<op, p1, p2, aspects, lat, atan2Deg, sky, chart, value, normalized, ring, minDeg, layout, subject, response, enriched, zodiacInfo, gmst, lon, wheel, lines, app, form, runs, syn>>

NextAscendant == CalculateAscendant

SpecAscendant == InitAscendant /\ [][NextAscendant]_vars

InitLines ==
    /\ op = "aspectLines"
    /\ pc = "input"
    /\ \/ /\ p1 \in ChartsOver(1, Anchors)
          /\ p2 \in ChartsOver(1, Longitudes)
       \/ /\ p1 \in SampledCharts
          /\ p2 \in SampledCharts
    /\ wheel \in WheelProps
    /\ lines = <<>>
    /\ aspects = Unused
    /\ lat = Unused /\ atan2Deg = Unused /\ sky = Unused /\ chart = Unused
    /\ value = Unused /\ normalized = Unused
    /\ ring = Unused /\ minDeg = Unused /\ layout = Unused
    /\ subject = Unused /\ response = Unused /\ enriched = Unused
    /\ zodiacInfo = Unused
    /\ gmst = Unused /\ lon = Unused /\ ascendant = Unused
    /\ app = Unused /\ form = Unused /\ runs = Unused
    /\ syn = Unused

\* one evaluation of the aspectLines memo
AspectLines ==
    /\ op = "aspectLines"
    /\ pc = "input"
    /\ lines' = aspectLines(p1, p2, wheel)
    /\ pc' = "done"
    /\ UNCHANGED <<op, p1, p2, aspects, lat, atan2Deg, sky, chart, value, normalized, ring, minDeg, layout, subject, response, enriched, zodiacInfo, gmst, lon, ascendant, wheel, app, form, runs, syn>>

NextLines == AspectLines

SpecLines == InitLines /\ [][NextLines]_vars

\* pc holds the name of the last event
InitApp ==
    /\ op = "App"
    /\ pc = "mount"
    /\ app = AppInitial
    /\ form = FormInitial
    /\ runs = <<>>
    /\ p1 = Unused /\ p2 = Unused /\ aspects = Unused
    /\ lat = Unused /\ atan2Deg = Unused /\ sky = Unused /\ chart = Unused
    /\ value = Unused /\ normalized = Unused
    /\ ring = Unused /\ minDeg = Unused /\ layout = Unused
    /\ subject = Unused /\ response = Unused /\ enriched = Unused
    /\ zodiacInfo = Unused
    /\ gmst = Unused /\ lon = Unused /\ ascendant = Unused
    /\ wheel = Unused /\ lines = Unused
    /\ syn = Unused

\* a click on the Natal or Synastry toggle of the form
SetMode ==
    /\ op = "App"
    /\ app.step = "input"
    /\ \E m \in {"natal", "synastry"} : form' = [form EXCEPT !.mode = m]
    /\ pc' = "setMode"
    /\ UNCHANGED <<op, p1, p2, aspects, lat, atan2Deg, sky, chart, value, normalized, ring, minDeg, layout, subject, response, enriched, zodiacInfo, gmst, lon, ascendant, wheel, lines, app, runs, syn>>

\* handleSubmit of the form: handleCalculate runs up to its await
Submit ==
    /\ op = "App"
    /\ SubmitEnabled(app)
    /\ app' = BeforeAwait(app, form.mode = "synastry")
    /\ runs' = Append(runs, [synastry |-> form.mode = "synastry", at |-> "awaiting", data |-> Null])
    /\ pc' = "handleCalculate"
    /\ UNCHANGED <<op, p1, p2, aspects, lat, atan2Deg, sky, chart, value, normalized, ring, minDeg, layout, subject, response, enriched, zodiacInfo, gmst, lon, ascendant, wheel, lines, form, syn>>

\* the promise of analyzeBirthChart or analyzeSynastry is fulfilled
Resolve ==
    /\ op = "App"
    /\ \E i \in 1..Len(runs) :
          /\ runs[i].at = "awaiting"
          /\ \E d \in (IF runs[i].synastry THEN SynastryResults ELSE NatalResults) :
                runs' = [runs EXCEPT ![i].at = "resolved", ![i].data = d]
    /\ pc' = "resolve"
    /\ UNCHANGED <<op, p1, p2, aspects, lat, atan2Deg, sky, chart, value, normalized, ring, minDeg, layout, subject, response, enriched, zodiacInfo, gmst, lon, ascendant, wheel, lines, app, form, syn>>

\* the promise of analyzeBirthChart or analyzeSynastry is rejected
Reject ==
    /\ op = "App"
    /\ \E i \in 1..Len(runs) :
          /\ runs[i].at = "awaiting"
          /\ runs' = [runs EXCEPT ![i].at = "rejected"]
    /\ pc' = "reject"
    /\ UNCHANGED <<op, p1, p2, aspects, lat, atan2Deg, sky, chart, value, normalized, ring, minDeg, layout, subject, response, enriched, zodiacInfo, gmst, lon, ascendant, wheel, lines, app, form, syn>>

\* handleCalculate resumes after its await and runs to its end; a BirthForm
\* that is mounted again starts from its initial state
Resume ==
    /\ op = "App"
    /\ \E i \in 1..Len(runs) :
          /\ runs[i].at # "awaiting"
          /\ app' = AfterAwait(app, runs[i])
          /\ runs' = SubSeq(runs, 1, i - 1) \o SubSeq(runs, i + 1, Len(runs))
          /\ pc' = IF runs[i].at = "resolved" THEN "resumeResolved" ELSE "resumeRejected"
    /\ form' = IF app'.step = "input" THEN form ELSE FormInitial
    /\ UNCHANGED <<op, p1, p2, aspects, lat, atan2Deg, sky, chart, value, normalized, ring, minDeg, layout, subject, response, enriched, zodiacInfo, gmst, lon, ascendant, wheel, lines, syn>>

\* a click on Back
HandleReset ==
    /\ op = "App"
    /\ app.step = "result"
    /\ app' = handleReset(app)
    /\ form' = FormInitial
    /\ pc' = "handleReset"
    /\ UNCHANGED <<op, p1, p2, aspects, lat, atan2Deg, sky, chart, value, normalized, ring, minDeg, layout, subject, response, enriched, zodiacInfo, gmst, lon, ascendant, wheel, lines, runs, syn>>

\* onPlanetSelect of the wheel, which is rendered when primary is set
SelectPlanet ==
    /\ op = "App"
    /\ app.step = "result"
    /\ getDataForWheel(app).primary # Null
    /\ \E b \in Selectable,
          o \in (IF getDataForWheel(app).secondary # Null THEN {"A", "B"} ELSE {"A"}) :
          app' = [app EXCEPT !.selectedPlanet = [kind |-> "selection", planet |-> b, owner |-> o]]
    /\ pc' = "selectPlanet"
    /\ UNCHANGED <<op, p1, p2, aspects, lat, atan2Deg, sky, chart, value, normalized, ring, minDeg, layout, subject, response, enriched, zodiacInfo, gmst, lon, ascendant, wheel, lines, form, runs, syn>>

NextApp ==
    SetMode \/ Submit \/ Resolve \/ Reject \/ Resume \/ HandleReset \/ SelectPlanet

SpecApp == InitApp /\ [][NextApp]_vars

\* the continuation of a settled promise is a microtask: it is run
SpecAppFair == SpecApp /\ WF_vars(Resume)

\* pc holds where analyzeSynastry stands: "resolving" (line 160), "enriching"
\* (line 170), "generating" (line 188), "returned" or "thrown"
InitSynastry ==
    /\ op = "analyzeSynastry"
    /\ pc = "resolving"
    /\ syn = SynastryInitial
    /\ p1 = Unused /\ p2 = Unused /\ aspects = Unused
    /\ lat = Unused /\ atan2Deg = Unused /\ sky = Unused /\ chart = Unused
    /\ value = Unused /\ normalized = Unused
    /\ ring = Unused /\ minDeg = Unused /\ layout = Unused
    /\ subject = Unused /\ response = Unused /\ enriched = Unused
    /\ zodiacInfo = Unused
    /\ gmst = Unused /\ lon = Unused /\ ascendant = Unused
    /\ wheel = Unused /\ lines = Unused
    /\ app = Unused /\ form = Unused /\ runs = Unused

\* one of the two resolveBirthDetails promises is fulfilled
ResolveBirthDetails ==
    /\ op = "analyzeSynastry"
    /\ pc = "resolving"
    /\ \E i \in 1..2 :
          /\ syn.details[i] = "pending"
          /\ \E c \in LocatedCharts(i) :
                syn' = [syn EXCEPT !.details[i] = "resolved", !.located[i] = c]
    /\ UNCHANGED <<op, pc, p1, p2, aspects, lat, atan2Deg, sky, chart, value, normalized, ring, minDeg, layout, subject, response, enriched, zodiacInfo, gmst, lon, ascendant, wheel, lines, app, form, runs>>

\* one of the two resolveBirthDetails promises is rejected: Promise.all rejects
ResolveBirthDetailsThrows ==
    /\ op = "analyzeSynastry"
    /\ pc = "resolving"
    /\ \E i \in 1..2 :
          /\ syn.details[i] = "pending"
          /\ syn' = [syn EXCEPT !.details[i] = "rejected"]
    /\ pc' = "thrown"
    /\ UNCHANGED <<op, p1, p2, aspects, lat, atan2Deg, sky, chart, value, normalized, ring, minDeg, layout, subject, response, enriched, zodiacInfo, gmst, lon, ascendant, wheel, lines, app, form, runs>>

\* Promise.all is fulfilled: lines 163 to 170, up to the second await
CalculateBoth ==
    /\ op = "analyzeSynastry"
    /\ pc = "resolving"
    /\ \A i \in 1..2 : syn.details[i] = "resolved"
    /\ syn' = [syn EXCEPT !.c1 = syn.located[1],
                          !.c2 = syn.located[2],
                          !.aspects = calculateAspects(syn.located[1].planets,
                                                       syn.located[2].planets)]
    /\ pc' = "enriching"
    /\ UNCHANGED <<op, p1, p2, aspects, lat, atan2Deg, sky, chart, value, normalized, ring, minDeg, layout, subject, response, enriched, zodiacInfo, gmst, lon, ascendant, wheel, lines, app, form, runs>>

\* both enrichChart promises are fulfilled: lines 170 to 188, up to the third await
EnrichBoth ==
    /\ op = "analyzeSynastry"
    /\ pc = "enriching"
    /\ \E v1 \in SynastryInterpretations, v2 \in SynastryInterpretations :
          /\ v1.kind = "valid"
          /\ v2.kind = "valid"
          /\ syn' = [syn EXCEPT !.p1Enriched = enrichChart(syn.c1, SynastryNames[1], v1),
                                !.p2Enriched = enrichChart(syn.c2, SynastryNames[2], v2)]
    /\ pc' = "generating"
    /\ UNCHANGED <<op, p1, p2, aspects, lat, atan2Deg, sky, chart, value, normalized, ring, minDeg, layout, subject, response, enriched, zodiacInfo, gmst, lon, ascendant, wheel, lines, app, form, runs>>

\* one of the enrichChart promises is rejected
EnrichThrows ==
    /\ op = "analyzeSynastry"
    /\ pc = "enriching"
    /\ \E v1 \in SynastryInterpretations, v2 \in SynastryInterpretations :
          v1.kind # "valid" \/ v2.kind # "valid"
    /\ pc' = "thrown"
    /\ UNCHANGED <<op, p1, p2, aspects, lat, atan2Deg, sky, chart, value, normalized, ring, minDeg, layout, subject, response, enriched, zodiacInfo, gmst, lon, ascendant, wheel, lines, app, form, runs, syn>>

\* generateContent answers and the answer passes validation: lines 218 to 242
ReturnSynastry ==
    /\ op = "analyzeSynastry"
    /\ pc = "generating"
    /\ \E answer \in SynastryAnswers :
          /\ answer.kind = "valid"
          /\ syn' = [syn EXCEPT !.analysis = answer,
                                !.returned = SynastryData(syn.p1Enriched, syn.p2Enriched,
                                                          answer, syn.aspects)]
    /\ pc' = "returned"
    /\ UNCHANGED <<op, p1, p2, aspects, lat, atan2Deg, sky, chart, value, normalized, ring, minDeg, layout, subject, response, enriched, zodiacInfo, gmst, lon, ascendant, wheel, lines, app, form, runs>>

\* if (!response.text) throw new Error("Could not analyze synastry.")
AnalysisThrows ==
    /\ op = "analyzeSynastry"
    /\ pc = "generating"
    /\ \E answer \in SynastryAnswers : answer.kind # "valid"
    /\ pc' = "thrown"
    /\ UNCHANGED <<op, p1, p2, aspects, lat, atan2Deg, sky, chart, value, normalized, ring, minDeg, layout, subject, response, enriched, zodiacInfo, gmst, lon, ascendant, wheel, lines, app, form, runs, syn>>

NextSynastry ==
    \/ ResolveBirthDetails
    \/ ResolveBirthDetailsThrows
    \/ CalculateBoth
    \/ EnrichBoth
    \/ EnrichThrows
    \/ ReturnSynastry
    \/ AnalysisThrows

SpecSynastry == InitSynastry /\ [][NextSynastry]_vars

----------------------------------------------------------------------------
(* Properties of calculateAspects *)

Done(o) == op = o /\ pc = "done"

\* the aspects array when the double loop has ended, before sort and slice
Pushed == CollectAspects(p1, p2, Len(p1) * Len(p2))

NameIndex(name) == CHOOSE i \in 1..Len(BODIES) : BODIES[i] = name

\* position of a record's pair in the enumeration order of the double loop
EnumIndex(rec) == (NameIndex(rec.planetA) - 1) * Len(p2) + NameIndex(rec.planetB)

\* the circular separation of two longitudes, stated independently of the code
CircularSeparation(a, b) == Min(Abs(a - b), FullCircle - Abs(a - b))

\* the five bands in their order of priority: exact angle and orb, in tenths
Bands == <<[type |-> "Conjunction", exact |-> 0,    orb |-> 60],
           [type |-> "Sextile",     exact |-> 600,  orb |-> 42],
           [type |-> "Square",      exact |-> 900,  orb |-> 60],
           [type |-> "Trine",       exact |-> 1200, orb |-> 60],
           [type |-> "Opposition",  exact |-> 1800, orb |-> 60]>>

InBand(sep, n) == Abs(sep - Bands[n].exact) <= Bands[n].orb

\* sep is first matched by band n
FirstMatch(sep, n) == InBand(sep, n) /\ \A m \in 1..(n - 1) : ~InBand(sep, m)

Unaspected(sep) == \A n \in 1..Len(Bands) : ~InBand(sep, n)

\* C1: classifying the pair (a, b) gives the same aspect type (or the same
\* absence of one) and the same orb as classifying (b, a); for two single
\* planets the list returned for (p2, p1) mirrors the one returned for (p1, p2).
C1_Symmetric ==
    Done("calculateAspects") =>
        /\ \A i \in 1..Len(p1), j \in 1..Len(p2) :
              LET ab == PairRecord(p1[i], p2[j])
                  ba == PairRecord(p2[j], p1[i])
              IN  ab.aspectType = ba.aspectType /\ ab.orb = ba.orb
        /\ (Len(p1) = 1 /\ Len(p2) = 1) =>
              LET rev == calculateAspects(p2, p1)
              IN  /\ Len(rev) = Len(aspects)
                  /\ \A k \in 1..Len(aspects) :
                        /\ rev[k].aspectType = aspects[k].aspectType
                        /\ rev[k].orb = aspects[k].orb
                        /\ rev[k].planetA = aspects[k].planetB
                        /\ rev[k].planetB = aspects[k].planetA

\* a trine across the 0/360 seam with a non-zero orb has been classified
C1_Witness ==
    /\ Done("calculateAspects")
    /\ Len(p1) = 1 /\ Len(p2) = 1
    /\ p2[1].degree - p1[1].degree > HalfCircle
    /\ Len(aspects) = 1
    /\ aspects[1].aspectType = "Trine"
    /\ aspects[1].orb > 0

\* C2: the double loop records a pair as Conjunction, Sextile, Square, Trine
\* or Opposition exactly when its circular separation is within 6, 4.2, 6, 6,
\* 6 degrees of 0, 60, 90, 120, 180, the first matching band winning, with
\* orb |separation - exact angle|; the returned list holds only such records
\* and all of them unless it is full; longitudes 10 and 70 give Sextile, orb 0.
C2_Bands ==
    Done("calculateAspects") =>
        LET pushed   == Range(Pushed)
            returned == Range(aspects)
        IN
        /\ \A i \in 1..Len(p1), j \in 1..Len(p2), n \in 1..Len(Bands) :
              LET sep == CircularSeparation(p1[i].degree, p2[j].degree)
                  rec == [planetA |-> p1[i].name, planetB |-> p2[j].name,
                          aspectType |-> Bands[n].type, description |-> "",
                          orb |-> Abs(sep - Bands[n].exact)]
              IN  /\ FirstMatch(sep, n) <=> rec \in pushed
                  /\ rec \in returned => FirstMatch(sep, n)
                  /\ FirstMatch(sep, n) =>
                        rec \in returned \/ Len(aspects) = TopAspects
        /\ \A k \in 1..Len(aspects) :
              \E n \in 1..Len(Bands) : aspects[k].aspectType = Bands[n].type
        /\ Cardinality(pushed) = Len(Pushed)
        /\ (p1 = <<Planet(1, Deg(10))>> /\ p2 = <<Planet(1, Deg(70))>>) =>
              aspects = <<[planetA |-> "Sun", planetB |-> "Sun",
                           aspectType |-> "Sextile", description |-> "",
                           orb |-> 0]>>

\* a sextile exactly on its 4.2 degree limit has been recorded
C2_Witness ==
    /\ Done("calculateAspects")
    /\ Len(aspects) = 1
    /\ aspects[1].aspectType = "Sextile"
    /\ aspects[1].orb = 42

\* C3: a pair whose separation lies in none of the five bands leaves no record
\* and the call still returns; every returned record has a non-empty type;
\* longitudes 95 and 300 yield an empty list.
C3_Unaspected ==
    Done("calculateAspects") =>
        /\ \A k \in 1..Len(aspects) : aspects[k].aspectType # ""
        /\ \A i \in 1..Len(p1), j \in 1..Len(p2) :
              Unaspected(CircularSeparation(p1[i].degree, p2[j].degree)) =>
                 \A k \in 1..Len(aspects) :
                    ~(aspects[k].planetA = p1[i].name /\ aspects[k].planetB = p2[j].name)
        /\ (p1 = <<Planet(1, Deg(95))>> /\ p2 = <<Planet(1, Deg(300))>>) =>
              aspects = <<>>

\* the call on longitudes 95 and 300 has returned
C3_Witness ==
    /\ Done("calculateAspects")
    /\ p1 = <<Planet(1, Deg(95))>>
    /\ p2 = <<Planet(1, Deg(300))>>
    /\ aspects = <<>>

\* C4: the returned list has at most 8 records, is ordered by non-decreasing
\* orb, and no qualifying pair left out has a smaller orb than a returned one.
C4_Tightest ==
    Done("calculateAspects") =>
        /\ Len(aspects) <= 8
        /\ \A k \in 1..(Len(aspects) - 1) : aspects[k].orb <= aspects[k + 1].orb
        /\ LET pushed == Pushed
           IN  /\ Range(aspects) \subseteq Range(pushed)
               /\ Len(aspects) = Min(Len(pushed), 8)
               /\ \A r \in Range(pushed) \ Range(aspects) :
                     \A k \in 1..Len(aspects) : r.orb >= aspects[k].orb

\* nine pairs qualified, with different orbs, and one was cut off
C4_Witness ==
    /\ Done("calculateAspects")
    /\ Len(Pushed) > 8
    /\ Len(aspects) = 8
    /\ aspects[1].orb < aspects[8].orb
    /\ \E k \in 1..(Len(Pushed) - 1) : Pushed[k].orb > Pushed[k + 1].orb

\* C5: records of equal orb appear in the order the double loop enumerated
\* their pairs, and when the cut at 8 falls inside a group of equal orbs the
\* records enumerated earlier are the ones kept.
C5_StableTies ==
    Done("calculateAspects") =>
        /\ \A k, l \in 1..Len(aspects) :
              (k < l /\ aspects[k].orb = aspects[l].orb) =>
                 EnumIndex(aspects[k]) < EnumIndex(aspects[l])
        /\ \A r \in Range(Pushed) \ Range(aspects) :
              \A k \in 1..Len(aspects) :
                 aspects[k].orb = r.orb => EnumIndex(aspects[k]) < EnumIndex(r)

\* the cut at 8 fell inside a group of equal orbs
C5_Witness ==
    /\ Done("calculateAspects")
    /\ Len(aspects) = 8
    /\ aspects[7].orb = aspects[8].orb
    /\ \E r \in Range(Pushed) \ Range(aspects) : r.orb = aspects[8].orb

\* C6: when calculateAspects compares a chart with itself, no body is paired
\* with itself and every unordered pair of bodies is recorded at most once.
C6_NoSelfPairs ==
    (Done("calculateAspects") /\ p1 = p2) =>
        /\ \A k \in 1..Len(aspects) : aspects[k].planetA # aspects[k].planetB
        /\ \A k, l \in 1..Len(aspects) :
              (k # l) => {aspects[k].planetA, aspects[k].planetB}
                           # {aspects[l].planetA, aspects[l].planetB}

----------------------------------------------------------------------------
(* Properties of calculateChart and of the normalization *)

\* the mathematical remainder in 0..n-1
Mod(a, n) == a % n

\* 0-based index of the sign named name
SignIndexOf(name) == CHOOSE k \in 0..11 : ZODIAC_SIGNS[k + 1].name = name

\* C7: every planet of the returned chart has a house in 1..12, the house is
\* ((signIndex - ascSignIndex + 12) mod 12) + 1, and for the ascendant sign of
\* the chart the mapping of the 12 signs to houses is one-to-one onto 1..12
\* and sends the ascendant's own sign to house 1.
C7_Houses ==
    Done("calculateChart") =>
        LET asc == SignIndexOf(chart.rising.sign)
        IN  /\ \A i \in 1..Len(chart.planets) :
                  /\ chart.planets[i].house \in 1..12
                  /\ chart.planets[i].house =
                        Mod(SignIndexOf(chart.planets[i].sign) - asc + 12, 12) + 1
            /\ {House(sg, asc) : sg \in 0..11} = 1..12
            /\ \A sg, th \in 0..11 : House(sg, asc) = House(th, asc) => sg = th
            /\ House(asc, asc) = 1

\* a planet in a sign before the ascendant's sign landed in house 12
C7_Witness ==
    /\ Done("calculateChart")
    /\ \E i \in 1..Len(chart.planets) :
          /\ SignIndexOf(chart.planets[i].sign) < SignIndexOf(chart.rising.sign)
          /\ chart.planets[i].house = 12

\* C8: the four percentages of the returned chart sum to exactly 100.
C8_SumTo100 ==
    Done("calculateChart") =>
        chart.elements.fire + chart.elements.earth
            + chart.elements.air + chart.elements.water = 100

\* a chart with 1, 2, 3 and 4 bodies in fire, earth, air and water
C8_Witness ==
    /\ Done("calculateChart")
    /\ CountElement(chart.planets, "fire") = 1
    /\ CountElement(chart.planets, "earth") = 2
    /\ CountElement(chart.planets, "air") = 3
    /\ CountElement(chart.planets, "water") = 4
    /\ chart.elements = [fire |-> 10, earth |-> 20, air |-> 30, water |-> 40]

\* C9 as stated: for every input, (x + 360) % 360 is in [0, 360) and
\* normalizing the result again returns it unchanged.
C9_AllInputs ==
    /\ (op = "normalize" /\ pc # "input") => normalized \in Longitudes
    /\ (op = "normalize" /\ pc = "again") => normalized = value

\* C9 amended: for every input of at least -360 degrees (which covers the
\* atan2 range and the ephemeris longitudes the program passes), the result is
\* in [0, 360), congruent to the input modulo 360, and normalizing a value
\* of [0, 360) again returns it unchanged.
C9_FromMinus360 ==
    /\ (op = "normalize" /\ pc = "done" /\ value >= -FullCircle) =>
          /\ normalized \in Longitudes
          /\ Mod(normalized - value, FullCircle) = 0
    /\ (op = "normalize" /\ pc = "again" /\ value \in Longitudes) =>
          normalized = value

\* the smallest value of atan2, -180 degrees, was normalized to 180
C9_Witness ==
    /\ op = "normalize"
    /\ pc = "done"
    /\ value = -HalfCircle
    /\ normalized = HalfCircle

\* C10: a call of calculateChart with latitude +90 or -90 fails and returns
\* no ascendant.
C10_PolarFails ==
    (op = "calculateChart" /\ lat \in {90, -90} /\ pc # "input") =>
        pc = "failed" /\ chart = Unused

----------------------------------------------------------------------------
(* Properties of resolveCollisions *)

Degrees(s) == [k \in 1..Len(s) |-> s[k].degree]

Tracks(s) == [k \in 1..Len(s) |-> s[k].track]

\* withTracks when sorted.forEach has ended, before the wrap-around patch
TrackPass == WithTracks(SortByDegree(ring), minDeg, Len(ring))

\* the smallest natural number that is not in S
Least(S) == CHOOSE t \in 0..Cardinality(S) : t \notin S /\ \A u \in 0..(t - 1) : u \in S

\* C11: in the layout resolveCollisions returns, any two distinct entities
\* whose circular distance is below minDeg are on different tracks, for every
\* input list and every minDeg.
C11_NoOverlap ==
    Done("resolveCollisions") =>
        \A k, l \in 1..Len(layout) :
            (k # l /\ CircularSeparation(layout[k].degree, layout[l].degree) < minDeg)
                => layout[k].track # layout[l].track

\* C12 as stated: the entities at 0, 2, 4, 6 and 100 with minDeg 6 get the
\* tracks 0, 1, 2, 3 and 0; the first four are not isolated, the last one is.
C12_IncreasingTracks ==
    (/\ Done("resolveCollisions")
     /\ Degrees(ring) = <<0, Deg(2), Deg(4), Deg(6), Deg(100)>>
     /\ minDeg = Deg(6)) =>
        /\ Tracks(layout) = <<0, 1, 2, 3, 0>>
        /\ [k \in 1..Len(layout) |-> layout[k].isIsolated]
              = <<FALSE, FALSE, FALSE, FALSE, TRUE>>

\* C12 (amended): the entities at 0, 2, 4, 6 and 100 with minDeg 6 get the
\* tracks 0, 1, 2, 0 and 0 (the entity at 6 is exactly 6 away from the one at
\* 0 and reuses track 0); the first four are not isolated, the last one is.
C12_ExampleTracks ==
    (/\ Done("resolveCollisions")
     /\ Degrees(ring) = <<0, Deg(2), Deg(4), Deg(6), Deg(100)>>
     /\ minDeg = Deg(6)) =>
        /\ Degrees(layout) = Degrees(ring)
        /\ Tracks(layout) = <<0, 1, 2, 0, 0>>
        /\ [k \in 1..Len(layout) |-> layout[k].isIsolated]
              = <<FALSE, FALSE, FALSE, FALSE, TRUE>>

\* the example has been laid out
C12_Witness ==
    /\ Done("resolveCollisions")
    /\ Degrees(ring) = <<0, Deg(2), Deg(4), Deg(6), Deg(100)>>
    /\ minDeg = Deg(6)
    /\ Len(layout) = 5

\* C16: in the track pass every entity, in ascending order of longitude, gets
\* the smallest track not used by those of the up to 4 entities right before
\* it whose circular distance to it is below minDeg; entities further back
\* are not considered.
C16_SmallestFreeTrack ==
    Done("resolveCollisions") =>
        LET pass == TrackPass
        IN  /\ Len(pass) = Len(ring)
            /\ \A k \in 1..(Len(pass) - 1) : pass[k].degree <= pass[k + 1].degree
            /\ \A k \in 1..Len(pass) :
                  pass[k].track =
                      Least({pass[m].track :
                               m \in {h \in Max(1, k - 4)..(k - 1) :
                                        CircularSeparation(pass[k].degree, pass[h].degree)
                                            < minDeg}})
            /\ \A k \in 2..Len(pass) : layout[k].track = pass[k].track

\* a sixth entity of a cluster reuses the track of the first one, which is
\* five positions back and closer than minDeg
C16_Witness ==
    /\ Done("resolveCollisions")
    /\ Len(layout) >= 6
    /\ minDeg = DefaultMinDeg
    /\ CircularSeparation(layout[6].degree, layout[1].degree) < minDeg
    /\ TrackPass[6].track = 0
    /\ TrackPass[5].track = 4

\* C17: the returned layout is the track pass, except that the track of the
\* first entity is one higher when there is more than one entity and the
\* first and the last are closer than minDeg and on the same track.
C17_WrapPatch ==
    Done("resolveCollisions") =>
        LET pass  == TrackPass
            n     == Len(pass)
            fires == /\ n > 1
                     /\ CircularSeparation(pass[1].degree, pass[n].degree) < minDeg
                     /\ pass[1].track = pass[n].track
        IN  /\ Len(layout) = n
            /\ \A k \in 2..n : layout[k] = pass[k]
            /\ n >= 1 =>
                  /\ layout[1].track = pass[1].track + (IF fires THEN 1 ELSE 0)
                  /\ \A f \in DOMAIN pass[1] : f # "track" => layout[1][f] = pass[1][f]

\* the patch has moved the first entity: the last one is across the seam,
\* closer than minDeg, and was given track 0 as well
C17_Witness ==
    /\ Done("resolveCollisions")
    /\ Len(layout) > 1
    /\ TrackPass[1].track = 0
    /\ layout[1].track = 1
    /\ layout[Len(layout)].track = 0
    /\ layout[Len(layout)].degree - layout[1].degree > HalfCircle

\* C18: an entity is flagged isolated exactly when it is the only one or is
\* at least 15 degrees away from both its predecessor and its successor in
\* the sorted order, taken circularly.
C18_Isolation ==
    Done("resolveCollisions") =>
        LET n == Len(layout)
        IN  /\ \A k \in 1..(n - 1) : layout[k].degree <= layout[k + 1].degree
            /\ \A k \in 1..n :
                  LET pred == IF k = 1 THEN n ELSE k - 1
                      succ == IF k = n THEN 1 ELSE k + 1
                  IN  layout[k].isIsolated <=>
                         \/ n = 1
                         \/ /\ CircularSeparation(layout[k].degree, layout[pred].degree)
                                  >= Deg(15)
                            /\ CircularSeparation(layout[k].degree, layout[succ].degree)
                                  >= Deg(15)

\* the first entity is far from the second one and is not isolated, because
\* the last entity is close to it across the seam; another one is isolated
C18_Witness ==
    /\ Done("resolveCollisions")
    /\ Len(layout) >= 3
    /\ ~layout[1].isIsolated
    /\ CircularSeparation(layout[1].degree, layout[2].degree) >= Deg(15)
    /\ \E k \in 2..Len(layout) : layout[k].isIsolated

----------------------------------------------------------------------------
(* Properties of the calls a wheel makes *)

\* C15: no call of resolveCollisions or calculateAspects changes the planet
\* lists it is given (their order and every field), and a call repeated after
\* any other calls returns the result the earlier call returned.
C15_Pure ==
    [][/\ p1' = p1
       /\ p2' = p2
       /\ ("calculateAspects" \in pc.made /\ pc'.last = "calculateAspects")
             => aspects' = aspects
       /\ ("plottedPlanetsA" \in pc.made /\ pc'.last = "plottedPlanetsA")
             => layout'.A = layout.A
       /\ ("plottedPlanetsB" \in pc.made /\ pc'.last = "plottedPlanetsB")
             => layout'.B = layout.B
       /\ pc'.last # "calculateAspects" => aspects' = aspects
       /\ pc'.last # "plottedPlanetsA" => layout'.A = layout.A
       /\ pc'.last # "plottedPlanetsB" => layout'.B = layout.B]_vars

\* all three calls have been made on lists that are not sorted by degree,
\* the last is a second layout of the first list, and the results are not empty
C15_Witness ==
    /\ op = "wheel"
    /\ pc.made = {"calculateAspects", "plottedPlanetsA", "plottedPlanetsB"}
    /\ pc.last = "plottedPlanetsA"
    /\ \E k \in 1..(Len(p1) - 1) : p1[k].degree > p1[k + 1].degree
    /\ \E k \in 1..(Len(p2) - 1) : p2[k].degree > p2[k + 1].degree
    /\ Len(aspects) > 0
    /\ Degrees(layout.A) # Degrees(p1)

----------------------------------------------------------------------------
(* Properties of enrichChart *)

\* the fields calculateChart computes for a planet
ComputedFields ==
    {"name", "symbol", "sign", "signSymbol", "degree", "relativeDegree", "house", "retrograde"}

\* C13: the ChartData enrichChart returns has the planets of the chart in the
\* same order with all computed fields unchanged, and the same rising,
\* elements and bigThree, whatever the answer contains; only interpretation,
\* name and summary are added.
C13_OnlyAddsText ==
    Done("enrichChart") =>
        /\ Len(enriched.planets) = Len(chart.planets)
        /\ \A k \in 1..Len(chart.planets) :
              /\ DOMAIN chart.planets[k] = ComputedFields
              /\ DOMAIN enriched.planets[k] = ComputedFields \cup {"interpretation"}
              /\ \A f \in ComputedFields : enriched.planets[k][f] = chart.planets[k][f]
        /\ enriched.rising = chart.rising
        /\ enriched.elements = chart.elements
        /\ enriched.bigThree = chart.bigThree
        /\ DOMAIN enriched = DOMAIN chart \cup {"name", "summary"}
        /\ enriched.name = subject
        /\ enriched.summary = response.summary

\* the answer names the Moon twice and a body that is not in the chart, and
\* has nothing for the Sun
C13_Witness ==
    /\ Done("enrichChart")
    /\ Len(response.planets) = 3
    /\ response.planets[1].name = "Moon"
    /\ response.planets[2].name = "Ceres"
    /\ response.planets[3].name = "Moon"
    /\ response.planets[1].interpretation # response.planets[3].interpretation
    /\ enriched.planets[1].interpretation = "A mysterious placement."

----------------------------------------------------------------------------
(* Retrograde flag and sign lookup *)

\* C14: a body of the chart is flagged retrograde exactly when its longitude
\* one hour later is numerically smaller than its longitude at the instant and
\* smaller by less than 180 degrees; a body that moves forward across the
\* 360-to-0 seam within the hour is not flagged.
C14_Retrograde ==
    Done("calculateChart") =>
        \A i \in 1..Len(BODIES) :
            /\ chart.planets[i].degree = sky[i].elon
            /\ chart.planets[i].retrograde <=>
                  (/\ sky[i].elonNext < sky[i].elon
                   /\ sky[i].elon - sky[i].elonNext < Deg(180))
            /\ (sky[i].elon > Deg(359) /\ sky[i].elonNext < Deg(1))
                  => ~chart.planets[i].retrograde

\* the Sun has crossed the seam forward and is not flagged, a body that has
\* moved backward is flagged, and a body standing still is not
C14_Witness ==
    /\ Done("calculateChart")
    /\ sky[1].elon > Deg(359) /\ sky[1].elonNext < Deg(1)
    /\ ~chart.planets[1].retrograde
    /\ sky[3].elonNext = sky[3].elon /\ ~chart.planets[3].retrograde
    /\ \E i \in 1..Len(BODIES) :
          sky[i].elonNext < sky[i].elon /\ chart.planets[i].retrograde

\* C19: for a longitude L in [0, 360) getZodiacInfo returns the sign with
\* index floor(L / 30), which is in 0..11, and relativeDegree = L mod 30 in
\* [0, 30); the sign's startDegree plus relativeDegree is L, and the
\* startDegree of each of the 12 table entries is 30 times its index.
C19_SignLookup ==
    Done("getZodiacInfo") =>
        LET idx == value \div Deg(30)
        IN  /\ idx \in 0..11
            /\ zodiacInfo.sign = ZODIAC_SIGNS[idx + 1]
            /\ zodiacInfo.relativeDegree = value % Deg(30)
            /\ zodiacInfo.relativeDegree >= 0 /\ zodiacInfo.relativeDegree < Deg(30)
            /\ Deg(zodiacInfo.sign.startDegree) + zodiacInfo.relativeDegree = value
            /\ Len(ZODIAC_SIGNS) = 12
            /\ \A k \in 1..Len(ZODIAC_SIGNS) : ZODIAC_SIGNS[k].startDegree = (k - 1) * 30

\* the longitude where Pisces begins has been looked up
C19_Witness ==
    /\ Done("getZodiacInfo")
    /\ value = Deg(330)
    /\ zodiacInfo.sign.name = "Pisces"
    /\ zodiacInfo.relativeDegree = 0

----------------------------------------------------------------------------
(* Ranges of separation and orb *)

\* the orb threshold of an aspect type, in tenths of a degree
OrbLimit(type) == IF type = "Sextile" THEN 42 ELSE 60

\* C20: for longitudes in [0, 360) the separation of every pair is in
\* [0, 180], and the orb of every returned record is non-negative and at most
\* the orb threshold of the record's aspect type.
C20_Ranges ==
    Done("calculateAspects") =>
        /\ \A i \in 1..Len(p1), j \in 1..Len(p2) :
              /\ p1[i].degree \in Longitudes /\ p2[j].degree \in Longitudes
              /\ Separation(p1[i].degree, p2[j].degree) \in 0..Deg(180)
              /\ LET rec == PairRecord(p1[i], p2[j])
                 IN  rec.aspectType # "" =>
                        rec.orb >= 0 /\ rec.orb <= OrbLimit(rec.aspectType)
        /\ \A k \in 1..Len(aspects) :
              /\ aspects[k].aspectType \in
                    {"Conjunction", "Sextile", "Square", "Trine", "Opposition"}
              /\ aspects[k].orb >= 0
              /\ aspects[k].orb <= OrbLimit(aspects[k].aspectType)

\* a sextile narrower than 60 degrees with the largest orb a sextile can have
C20_Witness ==
    /\ Done("calculateAspects")
    /\ Len(p1) = 1 /\ Len(p2) = 1
    /\ Len(aspects) = 1
    /\ aspects[1].aspectType = "Sextile"
    /\ aspects[1].orb = 42
    /\ Separation(p1[1].degree, p2[1].degree) < Deg(60)

----------------------------------------------------------------------------
(* Big three and elemental shares *)

\* the planet of the returned chart that carries a name
PlanetNamed(bodyName) ==
    chart.planets[CHOOSE i \in 1..Len(chart.planets) : chart.planets[i].name = bodyName]

\* C21: in the returned chart bigThree.sun is the sign of the planet named
\* Sun, bigThree.moon the sign of the planet named Moon, and bigThree.rising
\* is rising.sign, the sign that contains the ascendant longitude.
C21_BigThree ==
    Done("calculateChart") =>
        /\ chart.bigThree.sun = PlanetNamed("Sun").sign
        /\ chart.bigThree.moon = PlanetNamed("Moon").sign
        /\ chart.bigThree.rising = chart.rising.sign
        /\ chart.rising.degree = Mod(atan2Deg, FullCircle)
        /\ LET entry == ZODIAC_SIGNS[SignIndexOf(chart.rising.sign) + 1]
           IN  /\ Deg(entry.startDegree) <= chart.rising.degree
               /\ chart.rising.degree < Deg(entry.startDegree + 30)

\* Sun, Moon and ascendant are in three different signs
C21_Witness ==
    /\ Done("calculateChart")
    /\ chart.bigThree.sun # chart.bigThree.moon
    /\ chart.bigThree.sun # chart.bigThree.rising
    /\ chart.bigThree.moon # chart.bigThree.rising
    /\ atan2Deg < 0

\* the number of planets of the returned chart in the k-th element, counting
\* fire 0, earth 1, air 2, water 3: the signs cycle through them from Aries
BodiesInElement(k) ==
    Cardinality({i \in 1..Len(chart.planets) :
                    Mod(SignIndexOf(chart.planets[i].sign), 4) = k})

\* C26: with the 10 bodies each share is exactly 10 times the number of
\* bodies in its element; the remainder left for water is never negative and
\* is water's own share.
C26_TenTimesCount ==
    Done("calculateChart") =>
        /\ Len(chart.planets) = 10
        /\ chart.elements.fire = 10 * BodiesInElement(0)
        /\ chart.elements.earth = 10 * BodiesInElement(1)
        /\ chart.elements.air = 10 * BodiesInElement(2)
        /\ chart.elements.water = 10 * BodiesInElement(3)
        /\ 100 - chart.elements.fire - chart.elements.earth - chart.elements.air >= 0

\* all ten bodies in air signs: water is left with nothing
C26_Witness ==
    /\ Done("calculateChart")
    /\ BodiesInElement(2) = 10
    /\ chart.elements = [fire |-> 0, earth |-> 0, air |-> 100, water |-> 0]

----------------------------------------------------------------------------
(* Ascendant reference value *)

\* C22: for latitude 0, longitude 0 and a Greenwich sidereal time of 0 hours
\* calculateAscendant returns 90 degrees, the value of
\* atan2(cos(RAMC), -sin(RAMC) * cos(eps) - tan(lat) * sin(eps)) at RAMC = 0
\* normalized to [0, 360).
C22_AscendantReference ==
    (Done("calculateAscendant") /\ lat = 0 /\ lon = 0 /\ gmst = 0) =>
        /\ AscNum(gmst, lon) = 1
        /\ AscDen(gmst, lon, lat) = 0
        /\ ascendant = Deg(90)

\* the reference call has returned
C22_Witness ==
    /\ Done("calculateAscendant")
    /\ lat = 0 /\ lon = 0 /\ gmst = 0
    /\ ascendant \in Longitudes

----------------------------------------------------------------------------
(* Disjoint bands *)

AspectTypes == {"Conjunction", "Sextile", "Square", "Trine", "Opposition"}

\* the test of one band of the chain, taken on its own
BandTest(angle, type) ==
    Abs(angle - ExactAngle(type)) <= (IF type = "Sextile" THEN SextileOrb ELSE ORB)

\* C23: the five bands are pairwise disjoint on [0, 180]: a separation passes
\* the test of at most one band, and the chain returns the type of the band
\* it passes (none when it passes no test), whatever the order of the tests.
C23_DisjointBands ==
    Done("calculateAspects") =>
        \A i \in 1..Len(p1), j \in 1..Len(p2) :
            LET sep     == Separation(p1[i].degree, p2[j].degree)
                passing == {t \in AspectTypes : BandTest(sep, t)}
            IN  /\ sep \in 0..Deg(180)
                /\ Cardinality(passing) <= 1
                /\ \A n, m \in 1..Len(Bands) : (InBand(sep, n) /\ InBand(sep, m)) => n = m
                /\ passing = {AspectType(sep)} \ {""}

\* a separation a tenth of a degree outside the sextile band has been
\* classified as no aspect
C23_Witness ==
    /\ Done("calculateAspects")
    /\ Len(p1) = 1 /\ Len(p2) = 1
    /\ Separation(p1[1].degree, p2[1].degree) = Deg(60) + SextileOrb + 1
    /\ aspects = <<>>

----------------------------------------------------------------------------
(* The wheel's lines against calculateAspects *)

\* the aspect types of calculateAspects as aspectLines spells them
Lower(type) ==
    IF type = "Conjunction" THEN "conjunction"
    ELSE IF type = "Sextile" THEN "sextile"
    ELSE IF type = "Square" THEN "square"
    ELSE IF type = "Trine" THEN "trine"
    ELSE IF type = "Opposition" THEN "opposition"
    ELSE ""

\* C24: in synastry mode, for every planet of the first subject and every
\* planet of the second one, the wheel draws a line of the aspect type that
\* calculateAspects assigns to the pair, and no line when it assigns none.
C24_WheelAgrees ==
    (Done("aspectLines") /\ wheel.secondary /\ wheel.active = NoActive) =>
        \A i \in 1..Len(p1), j \in 1..Len(p2) :
            LET type  == Lower(PairRecord(p1[i], p2[j]).aspectType)
                drawn == {lines[k].type :
                            k \in {h \in 1..Len(lines) :
                                     lines[h].a = p1[i].name /\ lines[h].b = p2[j].name}}
            IN  drawn = {type} \ {""}

----------------------------------------------------------------------------
(* Range of the tracks *)

\* the entities among the up to 4 before the k-th one in sorted order that
\* are closer to it than minDeg
CloseLookback(k) ==
    {h \in Max(1, k - 4)..(k - 1) :
        CircularSeparation(layout[k].degree, layout[h].degree) < minDeg}

\* C25: every track of the returned layout is in 0..4: the first sorted
\* entity has track 0 after the main pass and at most 1 after the wrap-around
\* patch, and every other entity has a track no larger than the number of
\* its lookback neighbours.
C25_TrackRange ==
    Done("resolveCollisions") =>
        /\ \A k \in 1..Len(layout) : layout[k].track \in 0..4
        /\ Len(layout) >= 1 => (TrackPass[1].track = 0 /\ layout[1].track \in {0, 1})
        /\ \A k \in 2..Len(layout) :
              /\ layout[k].track <= Cardinality(CloseLookback(k))
              /\ Cardinality(CloseLookback(k)) <= Min(k - 1, 4)

\* a cluster of six with the default minDeg: the fifth entity is on track 4
\* and the sixth, with four close neighbours as well, is back on track 0
C25_Witness ==
    /\ Done("resolveCollisions")
    /\ minDeg = DefaultMinDeg
    /\ Len(layout) = 6
    /\ layout[5].track = 4
    /\ Cardinality(CloseLookback(6)) = 4
    /\ layout[6].track = 0

----------------------------------------------------------------------------
(* Properties of App *)

\* C27: whenever step is 'result', chartData is set and isSynastry tells
\* whether it is a SynastryData; right after handleReset step is 'input' and
\* chartData, selectedPlanet and isSynastry are cleared; a handleCalculate
\* that failed leaves step at 'input' and chartData as it was and sets error.
C27_AppStates ==
    /\ [](op = "App" =>
            /\ app.step = "result" =>
                  /\ app.chartData # Null
                  /\ app.isSynastry <=> (app.chartData.kind = "SynastryData")
                  /\ ~app.isSynastry <=> (app.chartData.kind = "ChartData")
            /\ pc = "handleReset" =>
                  /\ app.step = "input"
                  /\ app.chartData = Null
                  /\ app.selectedPlanet = Null
                  /\ ~app.isSynastry)
    /\ [][pc' = "resumeRejected" =>
            /\ app.step = "input" /\ app'.step = "input"
            /\ app'.chartData = app.chartData
            /\ app'.error = ErrorMessage]_vars

\* a synastry is shown with a planet of the second subject selected, after
\* an earlier chart was reset
C27_Witness ==
    /\ op = "App"
    /\ app.step = "result"
    /\ app.isSynastry
    /\ app.selectedPlanet # Null
    /\ app.selectedPlanet.owner = "B"
    /\ app.chartData.personA # app.chartData.personB

\* C28: handleCalculate sets isLoading and clears error before the analysis
\* starts; once the promise of a run has settled, isLoading becomes false and
\* loadingStep empty; at most one analysis is in flight at any time.
C28_Loading ==
    /\ [][pc' = "handleCalculate" =>
            /\ app'.isLoading
            /\ app'.error = Null
            /\ app'.loadingStep # ""
            /\ Len(runs') = Len(runs) + 1
            /\ runs'[Len(runs')].at = "awaiting"]_vars
    /\ (op = "App" /\ \E i \in 1..Len(runs) : runs[i].at # "awaiting")
          ~> (~app.isLoading /\ app.loadingStep = "")
    /\ [](op = "App" =>
            /\ Len(runs) <= 1
            /\ app.isLoading <=> Len(runs) = 1
            /\ app.isLoading => app.step = "input")

\* an analysis started after a failed one has been rejected as well and the
\* handler has not resumed yet
C28_Witness ==
    /\ op = "App"
    /\ Len(runs) = 1
    /\ runs[1].at = "rejected"
    /\ app.isLoading
    /\ app.error = Null
    /\ form.mode = "synastry"

----------------------------------------------------------------------------
(* Properties of analyzeSynastry *)

\* the calculated aspects that have the planets and the type of a key aspect
Matching(calculated, ka) ==
    {j \in 1..Len(calculated) :
        /\ calculated[j].planetA = ka.planetA
        /\ calculated[j].planetB = ka.planetB
        /\ calculated[j].aspectType = ka.aspectType}

\* no planet of the chart carries an interpretation
Unenriched(c) ==
    \A k \in 1..Len(c.planets) : "interpretation" \notin DOMAIN c.planets[k]

\* C29: in the SynastryData analyzeSynastry returns, every key aspect of
\* the answer carries the orb of the calculated aspect with the same planetA,
\* planetB and aspectType, and orb 0 when no calculated aspect matches; the
\* aspects are calculated from the two charts before they are enriched, and
\* only once both birth details are resolved.
C29_KeyAspectOrbs ==
    /\ [](op = "analyzeSynastry" /\ pc = "returned" =>
            LET calculated == calculateAspects(syn.c1.planets, syn.c2.planets)
                asked      == syn.analysis.keyAspects
                out        == syn.returned.analysis.keyAspects
            IN  /\ Len(out) = Len(asked)
                /\ \A k \in 1..Len(out) :
                      /\ out[k].planetA = asked[k].planetA
                      /\ out[k].planetB = asked[k].planetB
                      /\ out[k].aspectType = asked[k].aspectType
                      /\ \A j \in Matching(calculated, asked[k]) :
                            out[k].orb = calculated[j].orb
                      /\ Matching(calculated, asked[k]) = {} => out[k].orb = 0)
    /\ [](op = "analyzeSynastry" /\ pc \in {"enriching", "generating", "returned"} =>
            /\ \A i \in 1..2 : syn.details[i] = "resolved"
            /\ Unenriched(syn.c1) /\ Unenriched(syn.c2)
            /\ syn.aspects = calculateAspects(syn.c1.planets, syn.c2.planets))
    /\ [][op = "analyzeSynastry" /\ pc = "resolving" /\ pc' = "enriching" =>
            /\ \A i \in 1..2 : syn.details[i] = "resolved"
            /\ syn'.p1Enriched = Null /\ syn'.p2Enriched = Null
            /\ syn'.aspects = calculateAspects(syn.located[1].planets,
                                               syn.located[2].planets)]_vars
    /\ [][op = "analyzeSynastry" /\ pc = "resolving" /\ pc' = "resolving" =>
            syn'.aspects = <<>> /\ syn'.c1 = Null /\ syn'.c2 = Null]_vars

\* the answer names a calculated aspect of orb 2 degrees and, for a pair
\* that has a calculated aspect, another type
C29_Witness ==
    /\ op = "analyzeSynastry"
    /\ pc = "returned"
    /\ Len(syn.returned.analysis.keyAspects) = 2
    /\ syn.returned.analysis.keyAspects[1].orb = Deg(2)
    /\ syn.returned.analysis.keyAspects[2].orb = 0
    /\ \E j \in 1..Len(syn.aspects) :
          /\ syn.aspects[j].planetA = syn.analysis.keyAspects[2].planetA
          /\ syn.aspects[j].planetB = syn.analysis.keyAspects[2].planetB
          /\ syn.aspects[j].aspectType # syn.analysis.keyAspects[2].aspectType
          /\ syn.aspects[j].orb > 0
    /\ "interpretation" \in DOMAIN syn.returned.personA.planets[1]

====
